---- MODULE Spec2Model ----
(***************************************************************************)
(* Health-Tracker backend (src/backend/server.py): the session and         *)
(* document pipeline.  One server process with its startup-time backend    *)
(* selection (MongoDB through Motor, or the module-level in-memory dicts), *)
(* the JWT bearer tokens it issues, and its request handlers.  Every       *)
(* handler is an operator from (server state, request, clock) to (server   *)
(* state', outcome); an action applies one handler to one request.         *)
(*                                                                         *)
(* Strings of the source that carry accents are written without them.      *)
(***************************************************************************)
EXTENDS Integers, Sequences, FiniteSets, TLC

(***************************************************************************)
(* Bounds of the model.                                                    *)
(***************************************************************************)
MaxUuids == 4          \* uuid4() values put to use in one behaviour
MaxDocuments == 1      \* documents stored in one behaviour
MaxRecords == 1        \* records stored in one behaviour
MaxTwinDocuments == 2  \* documents stored by each of two processes served alike
HistoryDocuments == 2  \* documents uploaded before the analyses start
MaxTicks == 2          \* times the clock advances in one behaviour
TickHours == 13        \* hours that pass in one Tick

(***************************************************************************)
(* Request inputs.                                                         *)
(***************************************************************************)
Emails == {"ana@example.com", "luis@example.com"}
Passwords == {"SecurePass123!", "OtraClave456!"}
Usernames == {"maria"}

(***************************************************************************)
(* Python values.                                                          *)
(***************************************************************************)
None == [py_none |-> TRUE]      \* None where a dict / object is expected
NoneStr == "<None>"             \* None where a str is expected

\* dict.get(k, default)
Get(d, k, default) == IF k \in DOMAIN d THEN d[k] ELSE default

\* d[k] = v on a dict (adds the key when it is missing)
DictSet(d, k, v) == [x \in (DOMAIN d) \cup {k} |-> IF x = k THEN v ELSE d[x]]

\* the empty dict
EmptyDict == [x \in {} |-> None]

\* bool(x) of an Optional[str]
TruthyStr(x) == x # NoneStr /\ x # ""

\* str(uuid.uuid4()): the n-th value put to use (a value drawn by a request
\* that fails before storing or returning it is never seen again)
Uuid(n) == <<"uuid", n>>

\* the ObjectId MongoDB gives the n-th inserted document
ObjectId(n) == <<"oid", n>>

\* the elements of a collection whose field `key` equals `value`, in order
\* (a query {key: value}, or a scan of the values of a dict)
find(seq, key, value) ==
    LET Matches(doc) == Get(doc, key, NoneStr) = value
    IN SelectSeq(seq, Matches)

\* the first such element, or None
find_one(seq, key, value) ==
    IF find(seq, key, value) = <<>> THEN None ELSE Head(find(seq, key, value))

(***************************************************************************)
(* Configuration.                                                          *)
(***************************************************************************)
JWT_SECRET_KEY == "dev-jwt-secret-key-change-in-production"
JWT_EXPIRE_HOURS == 24
DB_NAME == "health_tracker"

(***************************************************************************)
(* Outcomes of a piece of handler code: it returns a body or raises.       *)
(***************************************************************************)
NoBody == [kind |-> "none"]
NoExc == [type |-> "none", status_code |-> 0, detail |-> <<>>]

HTTPException(status_code, detail) ==
    [type |-> "HTTPException", status_code |-> status_code, detail |-> detail]

\* what a Motor operation raises when no server can be selected
ServerSelectionTimeoutError ==
    [type |-> "ServerSelectionTimeoutError", status_code |-> 0,
     detail |-> <<"No servers found yet">>]

Raise(s, exc) == [st |-> s, raised |-> TRUE, exc |-> exc, body |-> NoBody]
Return(s, body) == [st |-> s, raised |-> FALSE, exc |-> NoExc, body |-> body]

\* str(e) of a raised exception
Str(exc) ==
    IF exc.type = "HTTPException"
    THEN <<ToString(exc.status_code) \o ": ">> \o exc.detail
    ELSE exc.detail

(***************************************************************************)
(* Password hashing and tokens.                                            *)
(***************************************************************************)
hash_password(password) == <<"$2b$", password>>

\* mutant: the stored hash compared with the plain password itself
verify_password_unhashed(plain_password, hashed_password) ==
    hashed_password = plain_password

verify_password(plain_password, hashed_password) ==
    hashed_password = hash_password(plain_password)

\* HS256 signature of a payload under a key
Sign(key, sub, exp) == <<key, sub, exp>>

create_access_token(data, clock) ==
    LET expire == clock + JWT_EXPIRE_HOURS
    IN [sub |-> data.sub, exp |-> expire,
        sig |-> Sign(JWT_SECRET_KEY, data.sub, expire)]

\* jwt.decode: the payload, or JWTError on a bad signature or a past expiry
jwt_decode(token, key, clock) ==
    IF token.sig # Sign(key, token.sub, token.exp) THEN [ok |-> FALSE, sub |-> token.sub]
    ELSE IF token.exp < clock THEN [ok |-> FALSE, sub |-> token.sub]
    ELSE [ok |-> TRUE, sub |-> token.sub]

(***************************************************************************)
(* The server state.                                                       *)
(***************************************************************************)
VARIABLES
    db,                 \* the Motor database handle, or NoneStr
    mongo_up,           \* whether the MongoDB server answers this process
    mongo,              \* the collections of the MongoDB server
    users_storage,      \* in-memory users, in insertion order (key: id)
    records_storage,    \* in-memory records: user -> list
    documents_storage,  \* in-memory documents: user -> list
    uuids,              \* uuid4() values drawn so far
    clock,              \* datetime.utcnow(), in hours
    tokens,             \* bearer tokens the clients hold
    registered,         \* credentials the clients registered with
    resp,               \* the last request and its response
    twin,               \* a second server process given the same requests
    server,             \* the file the process runs: server.py or a variant
    coroutines          \* the requests suspended at an await, and those done

vars == <<db, mongo_up, mongo, users_storage, records_storage,
          documents_storage, uuids, clock, tokens, registered, resp, twin,
          server, coroutines>>

\* the state the handlers read and write
Cur == [db |-> db, mongo_up |-> mongo_up, mongo |-> mongo,
        users_storage |-> users_storage, records_storage |-> records_storage,
        documents_storage |-> documents_storage, uuids |-> uuids]

Commit(s) ==
    /\ db' = s.db
    /\ mongo_up' = s.mongo_up
    /\ mongo' = s.mongo
    /\ users_storage' = s.users_storage
    /\ records_storage' = s.records_storage
    /\ documents_storage' = s.documents_storage
    /\ uuids' = s.uuids

EmptyMongo == [users |-> <<>>, health_documents |-> <<>>, records |-> <<>>, oids |-> 0]

\* insert_one: MongoDB adds _id to the stored document
insert_one(m, coll, doc) ==
    [m EXCEPT ![coll] = Append(@, DictSet(doc, "_id", ObjectId(m.oids + 1))),
              !.oids = @ + 1]

\* a database operation cannot be served
Unavailable(s) == s.db # NoneStr /\ ~s.mongo_up

(***************************************************************************)
(* Module-level backend selection.  AsyncIOMotorClient(...) opens no       *)
(* connection: it raises only on a malformed MONGO_URL (a PyMongoError).   *)
(***************************************************************************)
Startup(url_ok, reachable, m, drawn) ==
    [db |-> IF url_ok THEN DB_NAME ELSE NoneStr,
     mongo_up |-> reachable,
     mongo |-> m,
     users_storage |-> <<>>,
     records_storage |-> EmptyDict,
     documents_storage |-> EmptyDict,
     uuids |-> drawn]

(***************************************************************************)
(* The framework turns an outcome into the HTTP response.                  *)
(***************************************************************************)
InternalServerError == <<"Internal Server Error">>

Response(op, req, r) ==
    [op |-> op, req |-> req,
     status |-> IF ~r.raised THEN 200
                ELSE IF r.exc.type = "HTTPException" THEN r.exc.status_code
                ELSE 500,
     detail |-> IF ~r.raised THEN <<>>
                ELSE IF r.exc.type = "HTTPException" THEN r.exc.detail
                ELSE InternalServerError,
     body |-> r.body]

NoResponse == [op |-> "none", req |-> NoBody, status |-> 0, detail |-> <<>>,
               body |-> NoBody]

(***************************************************************************)
(* POST /auth/register                                                     *)
(***************************************************************************)
UserResponse(id, email, name, has_gemini_key) ==
    [id |-> id, email |-> email, name |-> name, has_gemini_key |-> has_gemini_key]

register_body(s, user, now) ==
    IF Unavailable(s) THEN Raise(s, ServerSelectionTimeoutError)
    ELSE
    LET user_exists ==
            IF s.db # NoneStr
            THEN \E i \in DOMAIN s.mongo.users : s.mongo.users[i].email = user.email
            ELSE \E i \in DOMAIN s.users_storage :
                    Get(s.users_storage[i], "email", NoneStr) = user.email
    IN
    IF user_exists
    THEN Raise(s, HTTPException(400, <<"El email ya esta registrado">>))
    ELSE
    LET user_id == Uuid(s.uuids + 1)
        user_data == [id |-> user_id, email |-> user.email, name |-> user.username,
                      password |-> hash_password(user.password),
                      has_gemini_key |-> FALSE]   \* created_at: never read

        s1 == [s EXCEPT !.uuids = @ + 1]
        s2 == IF s.db # NoneStr
              THEN [s1 EXCEPT !.mongo = insert_one(@, "users", user_data)]
              ELSE [s1 EXCEPT !.users_storage = Append(@, user_data)]
        access_token == create_access_token([sub |-> user_id], now)
    IN Return(s2, [access_token |-> access_token, token_type |-> "bearer",
                   user |-> UserResponse(user_id, user.email, user.username, FALSE)])

\* the handler: try: <body> except Exception as e: raise HTTPException(500, ...)
register(s, user, now) ==
    LET r == register_body(s, user, now)
    IN IF r.raised
       THEN Raise(r.st, HTTPException(500, <<"Registration error: ">> \o Str(r.exc)))
       ELSE r

(***************************************************************************)
(* POST /auth/login                                                        *)
(***************************************************************************)
\* mutant: an unknown email answered differently from a wrong password
UnknownUserError_404 == HTTPException(404, <<"Usuario no encontrado">>)

\* raised when no user has the email / when the password does not verify
UnknownUserError == HTTPException(401, <<"Credenciales invalidas">>)
WrongPasswordError == HTTPException(401, <<"Credenciales invalidas">>)

login(s, user_data, now) ==
    IF Unavailable(s) THEN Raise(s, ServerSelectionTimeoutError)
    ELSE
    LET user_doc == IF s.db # NoneStr
                    THEN find_one(s.mongo.users, "email", user_data.email)
                    ELSE find_one(s.users_storage, "email", user_data.email)
    IN
    IF user_doc = None
    THEN Raise(s, UnknownUserError)
    ELSE IF ~verify_password(user_data.password, user_doc.password)
    THEN Raise(s, WrongPasswordError)
    ELSE
    LET access_token == create_access_token([sub |-> user_doc.id], now)
    IN Return(s, [access_token |-> access_token, token_type |-> "bearer",
                  user |-> UserResponse(user_doc.id, user_doc.email, user_doc.name,
                                        TruthyStr(Get(user_doc, "gemini_api_key", NoneStr)))])

(***************************************************************************)
(* Bearer authentication (the two Depends of the routes).                  *)
(***************************************************************************)
User(user_data) ==
    [id |-> user_data.id, email |-> user_data.email, name |-> user_data.name,
     gemini_api_key |-> Get(user_data, "gemini_api_key", NoneStr)]

NoUser == [id |-> <<"None", 0>>, email |-> NoneStr, name |-> NoneStr,
           gemini_api_key |-> NoneStr]

AuthOk(user) == [raised |-> FALSE, exc |-> NoExc, user |-> user]
AuthFail(exc) == [raised |-> TRUE, exc |-> exc, user |-> NoUser]

get_current_user(s, credentials, now) ==
    LET payload == jwt_decode(credentials, JWT_SECRET_KEY, now)
        user_id == payload.sub
    IN
    IF ~payload.ok THEN AuthFail(HTTPException(401, <<"Token invalido">>))
    ELSE IF Unavailable(s) THEN AuthFail(ServerSelectionTimeoutError)
    ELSE
    LET found == IF s.db # NoneStr THEN find_one(s.mongo.users, "id", user_id) ELSE None
        user_data == IF found = None THEN find_one(s.users_storage, "id", user_id)
                     ELSE found
    IN IF user_data = None
       THEN AuthFail(HTTPException(401, <<"Usuario no encontrado">>))
       ELSE AuthOk(User(user_data))

\* returns the subject of the token; the user is not looked up
get_current_user_basic(credentials, now) ==
    LET payload == jwt_decode(credentials, JWT_SECRET_KEY, now)
    IN IF ~payload.ok THEN AuthFail(HTTPException(401, <<"Token invalido">>))
       ELSE AuthOk(payload.sub)

(***************************************************************************)
(* GET /auth/me and PUT /auth/gemini-key                                   *)
(***************************************************************************)
sanitize_user(doc) ==
    [id |-> Get(doc, "_id", Get(doc, "username", Get(doc, "id", <<"None", 0>>))),
     email |-> Get(doc, "email", NoneStr),
     name |-> Get(doc, "name", Get(doc, "username", NoneStr)),
     has_gemini_key |-> TruthyStr(Get(doc, "gemini_api_key", NoneStr))]

auth_me(s, current_user) ==
    IF Unavailable(s) THEN Raise(s, ServerSelectionTimeoutError)
    ELSE
    LET user_doc == IF s.db # NoneStr THEN find_one(s.mongo.users, "id", current_user)
                    ELSE find_one(s.users_storage, "id", current_user)
    IN IF user_doc = None
       THEN Raise(s, HTTPException(404, <<"User not found">>))
       ELSE Return(s, sanitize_user(user_doc))

\* $set / item assignment of the two key fields on every user with this id
SetKey(users, user_id, gemini_key) ==
    [i \in DOMAIN users |->
        IF users[i].id = user_id
        THEN DictSet(DictSet(users[i], "has_gemini_key", TRUE),
                     "gemini_api_key", gemini_key)
        ELSE users[i]]

AttributeError ==
    [type |-> "AttributeError", status_code |-> 0,
     detail |-> <<"'NoneType' object has no attribute 'get'">>]

set_gemini_key(s, payload, current_user) ==
    LET gemini_key == Get(payload, "gemini_api_key", NoneStr)
    IN
    IF ~TruthyStr(gemini_key)
    THEN Raise(s, HTTPException(400, <<"gemini_api_key requerido">>))
    ELSE IF s.db # NoneStr
    THEN IF Unavailable(s) THEN Raise(s, ServerSelectionTimeoutError)
         ELSE LET s1 == [s EXCEPT !.mongo.users = SetKey(@, current_user, gemini_key)]
                  doc == find_one(s1.mongo.users, "id", current_user)
              IN IF doc = None THEN Raise(s1, AttributeError)
                 ELSE Return(s1, [status |-> "ok", user |-> sanitize_user(doc)])
    ELSE IF \E i \in DOMAIN s.users_storage : s.users_storage[i].id = current_user
    THEN LET s1 == [s EXCEPT !.users_storage = SetKey(@, current_user, gemini_key)]
         IN Return(s1, [status |-> "ok",
                        user |-> sanitize_user(find_one(s1.users_storage, "id", current_user))])
    ELSE Raise(s, HTTPException(404, <<"User not found">>))

(***************************************************************************)
(* GET /records and POST /records                                          *)
(***************************************************************************)
\* the list filed under a key of a dict of lists; [] when the key is missing
ListOf(d, k) == IF k \in DOMAIN d THEN d[k] ELSE <<>>

\* record["_id"] = str(record["_id"])
StrId(doc) == [doc EXCEPT !["_id"] = <<"str">> \o @]

\* mutant: the converted _id is saved back to the collection
get_records_saving(s, current_user) ==
    IF s.db # NoneStr
    THEN IF Unavailable(s) THEN Raise(s, ServerSelectionTimeoutError)
         ELSE LET found == find(s.mongo.records, "user_id", current_user)
              IN Return([s EXCEPT !.mongo.records =
                            [i \in DOMAIN @ |-> IF @[i].user_id = current_user
                                                THEN StrId(@[i]) ELSE @[i]]],
                        [records |-> [i \in DOMAIN found |-> StrId(found[i])]])
    ELSE Return(s, [records |-> ListOf(s.records_storage, current_user)])

get_records(s, current_user) ==
    IF s.db # NoneStr
    THEN IF Unavailable(s) THEN Raise(s, ServerSelectionTimeoutError)
         ELSE LET found == find(s.mongo.records, "user_id", current_user)
              IN Return(s, [records |-> [i \in DOMAIN found |-> StrId(found[i])]])
    ELSE Return(s, [records |-> ListOf(s.records_storage, current_user)])

\* jsonable_encoder cannot encode the ObjectId insert_one added to the dict
ObjectIdNotEncodable ==
    [type |-> "ValueError", status_code |-> 0,
     detail |-> <<"'ObjectId' object is not iterable">>]

\* mutant: the record keeps the user_id the request body carried
create_record_trusting(s, record, current_user, now) ==
    LET record_dict == [id |-> Uuid(s.uuids + 1), user_id |-> record.user_id,
                        record_type |-> record.record_type, data |-> record.data,
                        timestamp |-> now]
        s1 == [s EXCEPT !.uuids = @ + 1]
    IN
    IF s.db # NoneStr
    THEN IF Unavailable(s) THEN Raise(s, ServerSelectionTimeoutError)
         ELSE Raise([s1 EXCEPT !.mongo = insert_one(@, "records", record_dict)],
                    ObjectIdNotEncodable)
    ELSE Return([s1 EXCEPT !.records_storage =
                     DictSet(@, current_user,
                             Append(ListOf(@, current_user), record_dict))],
                [status |-> "ok", record |-> record_dict])

create_record(s, record, current_user, now) ==
    LET record_dict == [id |-> Uuid(s.uuids + 1), user_id |-> current_user,
                        record_type |-> record.record_type, data |-> record.data,
                        timestamp |-> now]
        s1 == [s EXCEPT !.uuids = @ + 1]
    IN
    IF s.db # NoneStr
    THEN IF Unavailable(s) THEN Raise(s, ServerSelectionTimeoutError)
         ELSE Raise([s1 EXCEPT !.mongo = insert_one(@, "records", record_dict)],
                    ObjectIdNotEncodable)
    ELSE Return([s1 EXCEPT !.records_storage =
                     DictSet(@, current_user,
                             Append(ListOf(@, current_user), record_dict))],
                [status |-> "ok", record |-> record_dict])

(***************************************************************************)
(* POST /upload                                                            *)
(***************************************************************************)
MaxUploadBytes == 10 * 1024 * 1024

upload_file_body(s, file) ==
    IF file.size > MaxUploadBytes
    THEN Raise(s, HTTPException(413, <<"File too large">>))
    ELSE Return(s, [status |-> "ok", message |-> "File uploaded successfully",
                    file |-> [filename |-> file.filename, size |-> file.size]])

upload_file(s, file) ==
    LET r == upload_file_body(s, file)
    IN IF r.raised
       THEN Raise(r.st, HTTPException(500, <<"Upload error: ">> \o Str(r.exc)))
       ELSE r

(***************************************************************************)
(* POST /api/documents/upload                                              *)
(***************************************************************************)
PdfMagic == "%PDF-1.4"
JpegMagic == "JFIF"

\* PyPDF2.PdfReader(...).pages text, or PdfReadError on bytes that are no PDF
PdfReadable(content_bytes) == content_bytes = PdfMagic
ExtractText(content_bytes) == <<"text", content_bytes>>
PdfReadError ==
    [type |-> "PdfReadError", status_code |-> 0, detail |-> <<"EOF marker not found">>]

b64encode(content_bytes) == <<"base64", content_bytes>>

\* the document the handler builds and where it files it
NewDocument(s, file, document_type, current_user, now, content) ==
    [id |-> Uuid(s.uuids + 1), user_id |-> current_user.id,
     document_type |-> document_type, original_filename |-> file.filename,
     content |-> content, analysis_result |-> None, created_at |-> now]

StoreDocument(s, current_user, document_dict) ==
    IF s.db # NoneStr
    THEN [s EXCEPT !.uuids = @ + 1,
                   !.mongo = insert_one(@, "health_documents", document_dict)]
    ELSE [s EXCEPT !.uuids = @ + 1,
                   !.documents_storage =
                       DictSet(@, current_user.id,
                               Append(ListOf(@, current_user.id), document_dict))]

\* mutant: the document is stored before its text is extracted
upload_document_body_store_first(s, file, document_type, current_user, now) ==
    IF file.size > MaxUploadBytes
    THEN Raise(s, HTTPException(413, <<"Archivo muy grande">>))
    ELSE
    LET partial == NewDocument(s, file, document_type, current_user, now, <<>>)
        s1 == StoreDocument(s, current_user, partial)
    IN IF document_type = "pdf" /\ ~PdfReadable(file.data)
       THEN Raise(s1, PdfReadError)
       ELSE Return(s1, [id |-> partial.id, filename |-> file.filename,
                        type |-> document_type])

upload_document_body(s, file, document_type, current_user, now) ==
    IF file.size > MaxUploadBytes
    THEN Raise(s, HTTPException(413, <<"Archivo muy grande">>))
    ELSE IF document_type = "pdf" /\ ~PdfReadable(file.data)
    THEN Raise(s, PdfReadError)
    ELSE
    LET content == IF document_type = "pdf" THEN ExtractText(file.data)
                   ELSE b64encode(file.data)
        document_dict == NewDocument(s, file, document_type, current_user, now, content)
    IN
    IF Unavailable(s)
    THEN Raise(s, ServerSelectionTimeoutError)
    ELSE Return(StoreDocument(s, current_user, document_dict),
                [id |-> document_dict.id, filename |-> file.filename,
                 type |-> document_type])

upload_document(s, file, document_type, current_user, now) ==
    LET r == upload_document_body(s, file, document_type, current_user, now)
    IN IF r.raised
       THEN Raise(r.st, HTTPException(500, <<"Error al subir documento: ">> \o Str(r.exc)))
       ELSE r

\* what the two backends hold together
AllDocuments(s) ==
    {s.mongo.health_documents[i] : i \in DOMAIN s.mongo.health_documents}
    \cup UNION {{s.documents_storage[u][i] : i \in DOMAIN s.documents_storage[u]} :
                    u \in DOMAIN s.documents_storage}

AllRecords(s) ==
    {s.mongo.records[i] : i \in DOMAIN s.mongo.records}
    \cup UNION {{s.records_storage[u][i] : i \in DOMAIN s.records_storage[u]} :
                    u \in DOMAIN s.records_storage}

(***************************************************************************)
(* GET /api/documents and GET /api/dashboard                               *)
(***************************************************************************)
\* bool(doc.get("analysis_result")): None and the empty dict are falsy
HasAnalysis(doc) ==
    LET a == Get(doc, "analysis_result", None)
    IN a # None /\ a # EmptyDict

\* seq[:n]
Take(seq, n) == SubSeq(seq, 1, IF Len(seq) < n THEN Len(seq) ELSE n)

\* find(...).to_list(1000)
ListLimit == 1000

get_documents(s, current_user) ==
    LET documents == IF s.db # NoneStr
                     THEN Take(find(s.mongo.health_documents, "user_id",
                                    current_user.id), ListLimit)
                     ELSE ListOf(s.documents_storage, current_user.id)
    IN IF Unavailable(s) THEN Raise(s, ServerSelectionTimeoutError)
       ELSE Return(s, [documents |->
                [i \in DOMAIN documents |->
                    [id |-> documents[i].id,
                     filename |-> documents[i].original_filename,
                     type |-> documents[i].document_type,
                     created_at |-> documents[i].created_at,
                     has_analysis |-> HasAnalysis(documents[i])]]])

\* sorted(seq, key=created_at, reverse=True): stable, so equal keys keep
\* their order; built by inserting each element after the ones not older
RECURSIVE SortedDesc(_)
SortedDesc(seq) ==
    IF seq = <<>> THEN <<>>
    ELSE LET rest == SortedDesc(SubSeq(seq, 1, Len(seq) - 1))
             x == seq[Len(seq)]
             k == Cardinality({i \in DOMAIN rest : rest[i].created_at >= x.created_at})
         IN SubSeq(rest, 1, k) \o <<x>> \o SubSeq(rest, k + 1, Len(rest))

\* the orders find().sort("created_at", -1) may return: MongoDB leaves the
\* order of documents with equal keys open
IsSortDesc(out, seq) ==
    /\ Len(out) = Len(seq)
    /\ \A i \in DOMAIN seq : \E j \in DOMAIN out : out[j] = seq[i]
    /\ \A i, j \in DOMAIN out : i < j => out[i].created_at >= out[j].created_at

DashboardLimit == 10
RecentLimit == 5

dashboard_view(documents) ==
    LET analyzed_documents == SelectSeq(documents, HasAnalysis)
        recent == Take(analyzed_documents, RecentLimit)
    IN [total_documents |-> Len(documents),
        analyzed_documents |-> Len(analyzed_documents),
        recent_analyses |->
            [i \in DOMAIN recent |->
                [id |-> recent[i].id, filename |-> recent[i].original_filename,
                 type |-> recent[i].document_type,
                 created_at |-> recent[i].created_at,
                 analysis |-> recent[i].analysis_result]]]

\* `order` is the order MongoDB returned the sorted documents in
get_dashboard(s, current_user, order) ==
    LET documents == IF s.db # NoneStr THEN Take(order, DashboardLimit)
                     ELSE Take(SortedDesc(ListOf(s.documents_storage, current_user.id)),
                               DashboardLimit)
    IN IF Unavailable(s) THEN Raise(s, ServerSelectionTimeoutError)
       ELSE Return(s, dashboard_view(documents))

\* mutant: the durable query not scoped by user_id
SortOrders_unscoped(s, current_user) ==
    IF s.db = NoneStr \/ Unavailable(s) THEN {<<>>}
    ELSE {SortedDesc(s.mongo.health_documents)}

\* the results the sort of the durable backend may give for this user
SortOrders(s, current_user) ==
    LET mine == find(s.mongo.health_documents, "user_id", current_user.id)
        stable == SortedDesc(mine)
    IN IF s.db = NoneStr \/ Unavailable(s) THEN {<<>>}
       ELSE {stable} \cup
            {out \in {[i \in DOMAIN stable |-> stable[p[i]]] :
                        p \in [DOMAIN stable -> DOMAIN stable]} :
                IsSortDesc(out, mine)}

(***************************************************************************)
(* The Gemini API (generativelanguage.googleapis.com) and what the two     *)
(* analysis functions make of its reply.  A Python str is a sequence of    *)
(* pieces; in a generated text a piece is one character, except that a     *)
(* member of the JSON object the prompt asks for ("key": value, with its   *)
(* separator) is written as one piece.                                     *)
(***************************************************************************)
\* JSON values, all of one shape: a tag and the strings they hold
JsonNull == [json |-> "null", items |-> <<>>]
JsonInt(n) == [json |-> "int", items |-> <<<<n>>>>]
JsonFloat(x) == [json |-> "float", items |-> <<<<x>>>>]
JsonString(str) == [json |-> "string", items |-> <<str>>]
JsonList(strs) == [json |-> "list", items |-> strs]

\* the members the generated texts are written with
Members ==
    ("hair_count_estimate: 1200" :>
        [key |-> "hair_count_estimate", value |-> JsonInt("1200")])
    @@ ("hair_count_estimate: muchos" :>
        [key |-> "hair_count_estimate", value |-> JsonString(<<"muchos">>)])
    @@ ("baldness_zones: [coronilla]" :>
        [key |-> "baldness_zones", value |-> JsonList(<<<<"coronilla">>>>)])
    @@ ("alopecia_risk_3_years: bajo" :>
        [key |-> "alopecia_risk_3_years", value |-> JsonString(<<"bajo">>)])
    @@ ("recommendations: [minoxidil]" :>
        [key |-> "recommendations", value |-> JsonList(<<<<"minoxidil">>>>)])
    @@ ("confidence_score: 0.85" :>
        [key |-> "confidence_score", value |-> JsonFloat("0.85")])
    @@ ("hair_color: castano" :>
        [key |-> "hair_color", value |-> JsonString(<<"castano">>)])
    @@ ("main_findings: [ferritina baja]" :>
        [key |-> "main_findings", value |-> JsonList(<<<<"ferritina baja">>>>)])
    @@ ("summary: analitica" :>
        [key |-> "summary", value |-> JsonString(<<"analitica">>)])

\* generated_text.find(c) and generated_text.rfind(c): 0-based, -1 if absent
py_find(text, c) ==
    IF \E i \in DOMAIN text : text[i] = c
    THEN (CHOOSE i \in DOMAIN text : text[i] = c /\ \A j \in 1..(i - 1) : text[j] # c) - 1
    ELSE -1

py_rfind(text, c) ==
    IF \E i \in DOMAIN text : text[i] = c
    THEN (CHOOSE i \in DOMAIN text :
              text[i] = c /\ \A j \in (i + 1)..Len(text) : text[j] # c) - 1
    ELSE -1

\* text[start:stop] for start, stop >= 0
Slice(text, start, stop) ==
    SubSeq(text, start + 1, IF stop < Len(text) THEN stop ELSE Len(text))

\* json.loads: an object is "{", members, "}"; anything else is a
\* JSONDecodeError.  Of a repeated key the last member counts.
JSONDecodeError ==
    [type |-> "JSONDecodeError", status_code |-> 0,
     detail |-> <<"Expecting value: line 1 column 1 (char 0)">>]

json_loads(json_text) ==
    LET inner == SubSeq(json_text, 2, Len(json_text) - 1)
        wellformed == /\ Len(json_text) >= 2
                      /\ json_text[1] = "{"
                      /\ json_text[Len(json_text)] = "}"
                      /\ \A i \in DOMAIN inner : inner[i] \in DOMAIN Members
        keys == {Members[inner[i]].key : i \in DOMAIN inner}
        last(k) == CHOOSE i \in DOMAIN inner :
                       /\ Members[inner[i]].key = k
                       /\ \A j \in (i + 1)..Len(inner) : Members[inner[j]].key # k
    IN IF wellformed
       THEN [ok |-> TRUE, data |-> [k \in keys |-> Members[inner[last(k)]].value]]
       ELSE [ok |-> FALSE, data |-> EmptyDict]

\* what requests.post(...) and raise_for_status() raise
RequestException(kind) ==
    [type |-> kind, status_code |-> 0,
     detail |-> IF kind = "Timeout" THEN <<"Read timed out. (read timeout=30)">>
                ELSE IF kind = "ConnectionError" THEN <<"Connection refused">>
                ELSE <<"503 Server Error: Service Unavailable">>]

\* raise ValueError("No response from Gemini API")
NoCandidatesError ==
    [type |-> "ValueError", status_code |-> 0,
     detail |-> <<"No response from Gemini API">>]

\* what HairAnalysisResult(...) raises on a value of the wrong type
ValidationError ==
    [type |-> "ValidationError", status_code |-> 0,
     detail |-> <<"1 validation error for HairAnalysisResult">>]

\* the request the function posts
GeminiRequest(api_key, kind, data) == [api_key |-> api_key, kind |-> kind, data |-> data]

\* result["candidates"][0]["content"]["parts"][0]["text"], when there is one
HasCandidate(reply) == reply.has_candidates /\ Len(reply.candidates) > 0

PreviewChars == 200
SummaryChars == 300

\* the fields of HairAnalysisResult, and the tags pydantic accepts for each
HairFields ==
    [hair_count_estimate |-> {"int", "null"},
     baldness_zones |-> {"list"},
     alopecia_risk_3_years |-> {"string", "null"},
     alopecia_risk_5_years |-> {"string", "null"},
     alopecia_risk_10_years |-> {"string", "null"},
     recommendations |-> {"list"},
     confidence_score |-> {"float", "int", "null"}]

HairAnalysisResult(hair_count_estimate, baldness_zones, alopecia_risk_3_years, alopecia_risk_5_years, alopecia_risk_10_years, recommendations, confidence_score) ==
    [hair_count_estimate |-> hair_count_estimate,
     baldness_zones |-> baldness_zones,
     alopecia_risk_3_years |-> alopecia_risk_3_years,
     alopecia_risk_5_years |-> alopecia_risk_5_years,
     alopecia_risk_10_years |-> alopecia_risk_10_years,
     recommendations |-> recommendations,
     confidence_score |-> confidence_score]

\* the result built from the parsed object (lines 275-283)
HairFromJson(analysis_data) ==
    HairAnalysisResult(Get(analysis_data, "hair_count_estimate", JsonNull),
                       Get(analysis_data, "baldness_zones", JsonList(<<>>)),
                       Get(analysis_data, "alopecia_risk_3_years", JsonNull),
                       Get(analysis_data, "alopecia_risk_5_years", JsonNull),
                       Get(analysis_data, "alopecia_risk_10_years", JsonNull),
                       Get(analysis_data, "recommendations", JsonList(<<>>)),
                       Get(analysis_data, "confidence_score", JsonNull))

HairValid(result) == \A f \in DOMAIN HairFields : result[f].json \in HairFields[f]

\* mutant: the fallback carries the text cut as the document summary is
HairFallback_long(generated_text) ==
    HairAnalysisResult(JsonInt("0"), JsonList(<<<<"Analisis visual">>>>),
                       JsonString(<<"medio">>), JsonString(<<"medio">>),
                       JsonString(<<"alto">>),
                       JsonList(<<<<"Analisis: ">> \o Slice(generated_text, 0, SummaryChars)
                                  \o <<"...">>>>),
                       JsonFloat("0.7"))

\* the fallback when the text holds no JSON object (lines 289-297)
HairFallback(generated_text) ==
    HairAnalysisResult(JsonInt("0"), JsonList(<<<<"Analisis visual">>>>),
                       JsonString(<<"medio">>), JsonString(<<"medio">>),
                       JsonString(<<"alto">>),
                       JsonList(<<<<"Analisis: ">> \o Slice(generated_text, 0, PreviewChars)
                                  \o <<"...">>>>),
                       JsonFloat("0.7"))

\* the results of the two except branches (lines 301-322)
HairError(recommendation) ==
    HairAnalysisResult(JsonInt("0"), JsonList(<<<<"Error en analisis">>>>),
                       JsonString(<<"desconocido">>), JsonString(<<"desconocido">>),
                       JsonString(<<"desconocido">>),
                       JsonList(<<recommendation>>), JsonFloat("0.0"))

\* what a piece of an analysis function comes to: a result, or an exception
Result(result) == [raised |-> FALSE, exc |-> NoExc, result |-> result]
Raised(exc) == [raised |-> TRUE, exc |-> exc, result |-> EmptyDict]

\* the JSON object between the first "{" and the last "}", when there is one
\* (lines 267-286: the inner try with its except json.JSONDecodeError: pass)
ExtractJson(generated_text) ==
    LET json_start == py_find(generated_text, "{")
        json_end == py_rfind(generated_text, "}") + 1
    IN IF json_start # -1 /\ json_end # -1
       THEN LET parsed == json_loads(Slice(generated_text, json_start, json_end))
            IN IF parsed.ok THEN [found |-> TRUE, raised |-> FALSE, data |-> parsed.data]
               ELSE [found |-> FALSE, raised |-> TRUE, data |-> EmptyDict]
       ELSE [found |-> FALSE, raised |-> FALSE, data |-> EmptyDict]

\* the try body of analyze_hair_with_gemini (lines 214-299)
analyze_hair_with_gemini_body(api_key, image_base64, reply) ==
    IF reply.transport # "ok" THEN Raised(RequestException(reply.transport))
    ELSE IF ~HasCandidate(reply) THEN Raised(NoCandidatesError)
    ELSE
    LET generated_text == reply.candidates[1]
        json == ExtractJson(generated_text)
    IN IF json.found
       THEN IF HairValid(HairFromJson(json.data))
            THEN Result(HairFromJson(json.data))
            ELSE Raised(ValidationError)
       ELSE Result(HairFallback(generated_text))

RequestExceptions == {"Timeout", "ConnectionError", "HTTPError"}

analyze_hair_with_gemini(api_key, image_base64, reply) ==
    LET r == analyze_hair_with_gemini_body(api_key, image_base64, reply)
    IN IF ~r.raised THEN r.result
       ELSE IF r.exc.type \in RequestExceptions
       THEN HairError(<<"Revisar imagen y reintentar analisis">>)
       ELSE HairError(<<"Error en analisis: ">> \o Str(r.exc))

\* the fallback when the text holds no JSON object (lines 378-383)
DocumentFallback(generated_text) ==
    [main_findings |-> JsonList(<<<<"Documento procesado">>>>),
     recommendations |->
         JsonList(<<<<"Analisis: ">> \o Slice(generated_text, 0, PreviewChars)
                    \o <<"...">>>>),
     follow_up_points |-> JsonList(<<<<"Consulta con especialista">>>>),
     summary |-> JsonString(IF Len(generated_text) > SummaryChars
                            THEN Slice(generated_text, 0, SummaryChars) \o <<"...">>
                            ELSE generated_text)]

\* the results of the two except branches (lines 387-402)
DocumentError(summary) ==
    [main_findings |-> JsonList(<<<<"Error en analisis">>>>),
     recommendations |-> JsonList(<<<<"Revisar documento manualmente">>>>),
     follow_up_points |-> JsonList(<<<<"Consulta tecnica">>>>),
     summary |-> JsonString(summary)]

\* the try body of analyze_document_with_gemini (lines 326-385)
analyze_document_with_gemini_body(api_key, text_content, document_type, reply) ==
    IF reply.transport # "ok" THEN Raised(RequestException(reply.transport))
    ELSE IF ~HasCandidate(reply) THEN Raised(NoCandidatesError)
    ELSE
    LET generated_text == reply.candidates[1]
        json == ExtractJson(generated_text)
    IN IF json.found THEN Result(json.data)
       ELSE Result(DocumentFallback(generated_text))

analyze_document_with_gemini(api_key, text_content, document_type, reply) ==
    LET r == analyze_document_with_gemini_body(api_key, text_content, document_type, reply)
    IN IF ~r.raised THEN r.result
       ELSE IF r.exc.type \in RequestExceptions
       THEN DocumentError(<<"Error de conexion: ">> \o Str(r.exc))
       ELSE DocumentError(<<"Error interno: ">> \o Str(r.exc))

(***************************************************************************)
(* POST /api/analysis/hair and POST /api/analysis/document.  An outcome    *)
(* of these handlers also tells what they posted to the Gemini API.        *)
(***************************************************************************)
Posted(r, posted) ==
    [st |-> r.st, raised |-> r.raised, exc |-> r.exc, body |-> r.body,
     posted |-> posted]

\* mutant: the document looked up by its id alone
FindDocument_unscoped(s, document_id, user_id) ==
    IF s.db # NoneStr
    THEN find_one(s.mongo.health_documents, "id", document_id)
    ELSE IF \E d \in AllDocuments(s) : d.id = document_id
    THEN CHOOSE d \in AllDocuments(s) : d.id = document_id
    ELSE None

\* the caller's document with this id, or None (lines 710-722)
FindDocument(s, document_id, user_id) ==
    IF s.db # NoneStr
    THEN find_one(find(s.mongo.health_documents, "id", document_id), "user_id", user_id)
    ELSE find_one(ListOf(s.documents_storage, user_id), "id", document_id)

\* mutant: the fields of the new result are merged into the stored result
SetAnalysis_merged(docs, document_id, analysis_data) ==
    [i \in DOMAIN docs |->
        IF docs[i].id = document_id
        THEN LET old == docs[i].analysis_result
             IN DictSet(docs[i], "analysis_result",
                        IF old = None THEN analysis_data
                        ELSE [k \in DOMAIN old \cup DOMAIN analysis_data |->
                                IF k \in DOMAIN analysis_data THEN analysis_data[k]
                                ELSE old[k]])
        ELSE docs[i]]

\* mutant: the write of a result encodes the content of the document anew
SetAnalysis_reencoded(docs, document_id, analysis_data) ==
    [i \in DOMAIN docs |->
        IF docs[i].id = document_id
        THEN [DictSet(docs[i], "analysis_result", analysis_data)
                 EXCEPT !.content = b64encode(@)]
        ELSE docs[i]]

\* mutant: a result is set only on a document that has none
SetAnalysis_once(docs, document_id, analysis_data) ==
    [i \in DOMAIN docs |->
        IF docs[i].id = document_id /\ docs[i].analysis_result = None
        THEN DictSet(docs[i], "analysis_result", analysis_data)
        ELSE docs[i]]

\* {"$set": update_data} / update(update_data) on the first document with this id
SetAnalysis(docs, document_id, analysis_data) ==
    [i \in DOMAIN docs |->
        IF docs[i].id = document_id /\ \A j \in 1..(i - 1) : docs[j].id # document_id
        THEN DictSet(docs[i], "analysis_result", analysis_data)
        ELSE docs[i]]

\* mutant: the result saved on every document (update_many without a filter)
SaveAnalysis_everywhere(s, document_id, user_id, analysis_data) ==
    [s EXCEPT !.mongo.health_documents =
                  [i \in DOMAIN @ |-> DictSet(@[i], "analysis_result", analysis_data)],
              !.documents_storage =
                  [u \in DOMAIN @ |->
                      [i \in DOMAIN @[u] |->
                          DictSet(@[u][i], "analysis_result", analysis_data)]]]

\* the result saved on the document (lines 744-755)
SaveAnalysis(s, document_id, user_id, analysis_data) ==
    IF s.db # NoneStr
    THEN [s EXCEPT !.mongo.health_documents = SetAnalysis(@, document_id, analysis_data)]
    ELSE [s EXCEPT !.documents_storage =
              IF user_id \in DOMAIN @
              THEN DictSet(@, user_id, SetAnalysis(@[user_id], document_id, analysis_data))
              ELSE @]

MissingKeyError ==
    HTTPException(400, <<"Necesitas configurar tu API key de Gemini primero">>)
DocumentNotFoundError == HTTPException(404, <<"Documento no encontrado">>)

\* mutant: the document is looked up before the key is checked
analyze_hair_lookup_first(s, request, current_user, reply) ==
    LET document == FindDocument(s, request.document_id, current_user.id)
    IN
    IF document = None THEN Posted(Raise(s, DocumentNotFoundError), <<>>)
    ELSE IF ~TruthyStr(current_user.gemini_api_key)
    THEN Posted(Raise(s, MissingKeyError), <<>>)
    ELSE IF document.document_type # "image"
    THEN Posted(Raise(s, HTTPException(400,
                    <<"El analisis capilar solo funciona con imagenes">>)), <<>>)
    ELSE
    LET analysis_data == analyze_hair_with_gemini(current_user.gemini_api_key,
                                                  document.content, reply)
    IN Posted(Return(SaveAnalysis(s, request.document_id, current_user.id, analysis_data),
                     [analysis_result |-> analysis_data,
                      message |-> "Analisis completado exitosamente"]),
              <<GeminiRequest(current_user.gemini_api_key, "hair", document.content)>>)

\* mutant: the adapter is called again after a transport failure
analyze_hair_retrying(s, request, current_user, reply) ==
    IF ~TruthyStr(current_user.gemini_api_key)
    THEN Posted(Raise(s, MissingKeyError), <<>>)
    ELSE IF Unavailable(s) THEN Posted(Raise(s, ServerSelectionTimeoutError), <<>>)
    ELSE
    LET document == FindDocument(s, request.document_id, current_user.id)
    IN
    IF document = None THEN Posted(Raise(s, DocumentNotFoundError), <<>>)
    ELSE IF document.document_type # "image"
    THEN Posted(Raise(s, HTTPException(400,
                    <<"El analisis capilar solo funciona con imagenes">>)), <<>>)
    ELSE
    LET analysis_data == analyze_hair_with_gemini(current_user.gemini_api_key,
                                                  document.content, reply)
        post == GeminiRequest(current_user.gemini_api_key, "hair", document.content)
    IN Posted(Return(SaveAnalysis(s, request.document_id, current_user.id, analysis_data),
                     [analysis_result |-> analysis_data,
                      message |-> "Analisis completado exitosamente"]),
              IF reply.transport \in RequestExceptions THEN <<post, post>>
              ELSE <<post>>)

analyze_hair(s, request, current_user, reply) ==
    IF ~TruthyStr(current_user.gemini_api_key)
    THEN Posted(Raise(s, MissingKeyError), <<>>)
    ELSE IF Unavailable(s) THEN Posted(Raise(s, ServerSelectionTimeoutError), <<>>)
    ELSE
    LET document == FindDocument(s, request.document_id, current_user.id)
    IN
    IF document = None THEN Posted(Raise(s, DocumentNotFoundError), <<>>)
    ELSE IF document.document_type # "image"
    THEN Posted(Raise(s, HTTPException(400,
                    <<"El analisis capilar solo funciona con imagenes">>)), <<>>)
    ELSE
    LET analysis_data == analyze_hair_with_gemini(current_user.gemini_api_key,
                                                  document.content, reply)
    IN Posted(Return(SaveAnalysis(s, request.document_id, current_user.id, analysis_data),
                     [analysis_result |-> analysis_data,
                      message |-> "Analisis completado exitosamente"]),
              <<GeminiRequest(current_user.gemini_api_key, "hair", document.content)>>)

\* mutant: the type of the document is not checked
analyze_document_untyped(s, request, current_user, reply) ==
    IF ~TruthyStr(current_user.gemini_api_key)
    THEN Posted(Raise(s, MissingKeyError), <<>>)
    ELSE
    LET document == FindDocument(s, request.document_id, current_user.id)
    IN
    IF document = None THEN Posted(Raise(s, DocumentNotFoundError), <<>>)
    ELSE
    LET result == analyze_document_with_gemini(current_user.gemini_api_key,
                                               document.content,
                                               document.document_type, reply)
    IN Posted(Return(SaveAnalysis(s, request.document_id, current_user.id, result),
                     [analysis_result |-> result,
                      message |-> "Analisis de documento completado"]),
              <<GeminiRequest(current_user.gemini_api_key, "document", document.content)>>)

analyze_document(s, request, current_user, reply) ==
    IF ~TruthyStr(current_user.gemini_api_key)
    THEN Posted(Raise(s, MissingKeyError), <<>>)
    ELSE IF Unavailable(s) THEN Posted(Raise(s, ServerSelectionTimeoutError), <<>>)
    ELSE
    LET document == FindDocument(s, request.document_id, current_user.id)
    IN
    IF document = None THEN Posted(Raise(s, DocumentNotFoundError), <<>>)
    ELSE IF document.document_type # "pdf"
    THEN Posted(Raise(s, HTTPException(400,
                    <<"El analisis de documentos solo funciona con PDFs">>)), <<>>)
    ELSE
    LET result == analyze_document_with_gemini(current_user.gemini_api_key,
                                               document.content,
                                               document.document_type, reply)
    IN Posted(Return(SaveAnalysis(s, request.document_id, current_user.id, result),
                     [analysis_result |-> result,
                      message |-> "Analisis de documento completado"]),
              <<GeminiRequest(current_user.gemini_api_key, "document", document.content)>>)

(***************************************************************************)
(* The routes: the dependency runs first; the handler only if it returns.  *)
(***************************************************************************)
route_auth_me(s, credentials, now) ==
    LET a == get_current_user_basic(credentials, now)
    IN IF a.raised THEN Raise(s, a.exc) ELSE auth_me(s, a.user)

route_set_gemini_key(s, credentials, payload, now) ==
    LET a == get_current_user_basic(credentials, now)
    IN IF a.raised THEN Raise(s, a.exc) ELSE set_gemini_key(s, payload, a.user)

route_get_records(s, credentials, now) ==
    LET a == get_current_user_basic(credentials, now)
    IN IF a.raised THEN Raise(s, a.exc) ELSE get_records(s, a.user)

route_create_record(s, credentials, record, now) ==
    LET a == get_current_user_basic(credentials, now)
    IN IF a.raised THEN Raise(s, a.exc) ELSE create_record(s, record, a.user, now)

route_upload_file(s, credentials, file, now) ==
    LET a == get_current_user_basic(credentials, now)
    IN IF a.raised THEN Raise(s, a.exc) ELSE upload_file(s, file)

route_upload_document(s, credentials, file, document_type, now) ==
    LET a == get_current_user(s, credentials, now)
    IN IF a.raised THEN Raise(s, a.exc)
       ELSE upload_document(s, file, document_type, a.user, now)

route_get_documents(s, credentials, now) ==
    LET a == get_current_user(s, credentials, now)
    IN IF a.raised THEN Raise(s, a.exc) ELSE get_documents(s, a.user)

route_get_dashboard(s, credentials, order, now) ==
    LET a == get_current_user(s, credentials, now)
    IN IF a.raised THEN Raise(s, a.exc) ELSE get_dashboard(s, a.user, order)

route_analyze_hair(s, credentials, request, reply, now) ==
    LET a == get_current_user(s, credentials, now)
    IN IF a.raised THEN Posted(Raise(s, a.exc), <<>>)
       ELSE analyze_hair(s, request, a.user, reply)

route_analyze_document(s, credentials, request, reply, now) ==
    LET a == get_current_user(s, credentials, now)
    IN IF a.raised THEN Posted(Raise(s, a.exc), <<>>)
       ELSE analyze_document(s, request, a.user, reply)

(***************************************************************************)
(* Actions.                                                                *)
(***************************************************************************)
\* each person registers with a password of their own
PasswordOf(email) ==
    IF email = "ana@example.com" THEN "SecurePass123!" ELSE "OtraClave456!"
RegisterRequests ==
    {[email |-> e, username |-> u, password |-> PasswordOf(e)] :
        e \in Emails, u \in Usernames}
LoginRequests == [email : Emails, password : Passwords]
GeminiKeyPayloads == {[gemini_api_key |-> "AIza-test-key"], EmptyDict}
RecordBodies == [user_id : {Uuid(1), Uuid(2)}, record_type : {"weight"},
                 data : {[kg |-> 70]}]
Files == [filename : {"analisis.pdf"}, data : {PdfMagic},
          size : {MaxUploadBytes, MaxUploadBytes + 1}]
         \cup [filename : {"test_hair_image.jpg"}, data : {JpegMagic},
               size : {MaxUploadBytes}]
DocumentTypes == {"image", "pdf", "docx"}
\* the uploads clients send: a PDF as "pdf", the image under every type
Uploads ==
    {u \in Files \X DocumentTypes : u[1].data = PdfMagic => u[2] = "pdf"}

\* a client keeps the latest token it received for an identity
Keep(held, token) == {t \in held : t.sub # token.sub} \cup {token}

\* what a client can present: a token it holds, or one it altered (altered
\* tokens are presented to /auth/me and /api/documents, one route for each
\* of the two authentication dependencies)
Forged(token) ==
    {[token EXCEPT !.sig = Sign("attacker-key", token.sub, token.exp)],
     [token EXCEPT !.exp = @ + JWT_EXPIRE_HOURS]}
Presentable == tokens \cup UNION {Forged(t) : t \in tokens}

\* how a process can be started: MONGO_URL well-formed and the server
\* reachable, well-formed and the server unreachable, or malformed (then no
\* server is addressed)
Environments == {<<TRUE, TRUE>>, <<TRUE, FALSE>>, <<FALSE, FALSE>>}

\* the state of a process after its module-level code ran
Started(url_ok, reachable) ==
    LET s == Startup(url_ok, reachable, EmptyMongo, 0)
    IN /\ db = s.db
       /\ mongo_up = s.mongo_up
       /\ mongo = s.mongo
       /\ users_storage = s.users_storage
       /\ records_storage = s.records_storage
       /\ documents_storage = s.documents_storage
       /\ uuids = s.uuids

\* the second process: MONGO_URL malformed, so the in-memory backend
TwinStarted == [st |-> Startup(FALSE, FALSE, EmptyMongo, 0), resp |-> NoResponse]

Init ==
    /\ \E env \in Environments : Started(env[1], env[2])
    /\ clock = 0
    /\ tokens = {}
    /\ registered = {}
    /\ resp = NoResponse
    /\ twin = TwinStarted
    /\ server = "server.py"
    /\ coroutines = <<>>

Tick ==
    /\ clock + TickHours <= MaxTicks * TickHours
    /\ clock' = clock + TickHours
    /\ UNCHANGED <<db, mongo_up, mongo, users_storage, records_storage,
                   documents_storage, uuids, tokens, registered, resp, twin, server, coroutines>>

\* the process is stopped and started again: the in-memory dicts are lost,
\* the MongoDB server and the tokens the clients hold are not
Restart ==
    /\ \E env \in Environments : Commit(Startup(env[1], env[2], mongo, uuids))
    /\ resp' = [NoResponse EXCEPT !.op = "restart"]
    /\ UNCHANGED <<clock, tokens, registered, twin, server, coroutines>>

RegisterWith(user) ==
    LET r == register(Cur, user, clock)
    IN /\ r.st.uuids <= MaxUuids
       /\ Commit(r.st)
       /\ resp' = Response("register", user, r)
       /\ tokens' = IF r.raised THEN tokens ELSE Keep(tokens, r.body.access_token)
       /\ registered' = IF r.raised THEN registered
                        ELSE registered \cup {[email |-> user.email,
                                               password |-> user.password,
                                               id |-> r.body.user.id]}
       /\ UNCHANGED clock

Register == \E user \in RegisterRequests : RegisterWith(user) /\ UNCHANGED <<twin, server, coroutines>>

LoginWith(user_data) ==
    LET r == login(Cur, user_data, clock)
    IN /\ Commit(r.st)
       /\ resp' = Response("login", user_data, r)
       /\ tokens' = IF r.raised THEN tokens ELSE Keep(tokens, r.body.access_token)
       /\ UNCHANGED <<clock, registered>>

Login == \E user_data \in LoginRequests : LoginWith(user_data) /\ UNCHANGED <<twin, server, coroutines>>

AuthMe ==
    \E credentials \in Presentable :
        LET r == route_auth_me(Cur, credentials, clock)
        IN /\ Commit(r.st)
           /\ resp' = Response("auth_me", [credentials |-> credentials], r)
           /\ UNCHANGED <<clock, tokens, registered, twin, server, coroutines>>

SetGeminiKey ==
    \E credentials \in tokens, payload \in GeminiKeyPayloads :
        LET r == route_set_gemini_key(Cur, credentials, payload, clock)
        IN /\ Commit(r.st)
           /\ resp' = Response("set_gemini_key",
                               [credentials |-> credentials, payload |-> payload], r)
           /\ UNCHANGED <<clock, tokens, registered, twin, server, coroutines>>

GetRecords ==
    \E credentials \in tokens :
        LET r == route_get_records(Cur, credentials, clock)
        IN /\ Commit(r.st)
           /\ resp' = Response("get_records", [credentials |-> credentials], r)
           /\ UNCHANGED <<clock, tokens, registered, twin, server, coroutines>>

CreateRecord ==
    \E credentials \in tokens, record \in RecordBodies :
        LET r == route_create_record(Cur, credentials, record, clock)
        IN /\ r.st.uuids <= MaxUuids
           /\ Cardinality(AllRecords(r.st)) <= MaxRecords
           /\ Commit(r.st)
           /\ resp' = Response("create_record",
                               [credentials |-> credentials, record |-> record], r)
           /\ UNCHANGED <<clock, tokens, registered, twin, server, coroutines>>

UploadFile ==
    \E credentials \in tokens, file \in Files :
        LET r == route_upload_file(Cur, credentials, file, clock)
        IN /\ Commit(r.st)
           /\ resp' = Response("upload_file",
                               [credentials |-> credentials, file |-> file], r)
           /\ UNCHANGED <<clock, tokens, registered, twin, server, coroutines>>

UploadDocumentWith(credentials, file, document_type, limit) ==
    LET r == route_upload_document(Cur, credentials, file, document_type, clock)
    IN /\ r.st.uuids <= MaxUuids
       /\ Cardinality(AllDocuments(r.st)) <= limit
       /\ Commit(r.st)
       /\ resp' = Response("upload_document",
                           [credentials |-> credentials, file |-> file,
                            document_type |-> document_type], r)
       /\ UNCHANGED <<clock, tokens, registered>>

UploadDocument ==
    \E credentials \in tokens, u \in Uploads :
        UploadDocumentWith(credentials, u[1], u[2], MaxDocuments)
        /\ UNCHANGED <<twin, server, coroutines>>

GetDocuments ==
    \E credentials \in Presentable :
        LET r == route_get_documents(Cur, credentials, clock)
        IN /\ Commit(r.st)
           /\ resp' = Response("get_documents", [credentials |-> credentials], r)
           /\ UNCHANGED <<clock, tokens, registered, twin, server, coroutines>>

\* the orders the durable sort may return for the user of these credentials
OrdersFor(s, credentials, now) ==
    LET a == get_current_user(s, credentials, now)
    IN IF a.raised THEN {<<>>} ELSE SortOrders(s, a.user)

GetDashboardWith(credentials, order) ==
    LET r == route_get_dashboard(Cur, credentials, order, clock)
    IN /\ Commit(r.st)
       /\ resp' = Response("get_dashboard", [credentials |-> credentials], r)
       /\ UNCHANGED <<clock, tokens, registered>>

GetDashboard ==
    \E credentials \in tokens :
        \E order \in OrdersFor(Cur, credentials, clock) :
            GetDashboardWith(credentials, order) /\ UNCHANGED <<twin, server, coroutines>>

(***************************************************************************)
(* The analysis requests and the replies of the Gemini API.                *)
(***************************************************************************)
\* a text of n characters
Pad(n) == [i \in 1..n |-> "x"]

\* texts that hold the JSON object the prompt asks for
JsonTexts ==
    {<<"J", "{", "hair_count_estimate: 1200", "baldness_zones: [coronilla]",
       "alopecia_risk_3_years: bajo", "recommendations: [minoxidil]",
       "confidence_score: 0.85", "}", ".">>,
     <<"{", "hair_count_estimate: 1200", "hair_color: castano", "}">>,
     <<"{", "main_findings: [ferritina baja]", "summary: analitica", "}">>,
     <<"{", "hair_count_estimate: muchos", "hair_count_estimate: 1200", "}">>,
     <<"{", "}">>}

\* texts that hold no JSON object
ProseTexts ==
    {<<"N", "o">>, <<"{", "hair_count_estimate: 1200">>, <<"}", "{">>,
     <<"{", "n", "o", "}">>, <<"{", "}", "}">>,
     Pad(PreviewChars), Pad(PreviewChars + 1), Pad(SummaryChars + 1)}

\* a JSON object with a value of the wrong type
MistypedTexts == {<<"{", "hair_count_estimate: muchos", "}">>}

GeneratedTexts == JsonTexts \cup ProseTexts \cup MistypedTexts

Candidates(texts) == [transport |-> "ok", has_candidates |-> TRUE, candidates |-> texts]

\* the call fails, or the envelope holds no candidate, or it holds texts
FailedReplies ==
    {[transport |-> k, has_candidates |-> FALSE, candidates |-> <<>>] :
        k \in RequestExceptions}
EmptyReplies ==
    {[transport |-> "ok", has_candidates |-> FALSE, candidates |-> <<>>],
     Candidates(<<>>)}
TextReplies ==
    {Candidates(<<t>>) : t \in GeneratedTexts}
    \cup {Candidates(<<<<"N", "o">>, <<"{", "}">>>>)}
GeminiReplies == FailedReplies \cup EmptyReplies \cup TextReplies

\* the replies the served analysis requests meet: one of each kind
ServedReplies ==
    {[transport |-> "Timeout", has_candidates |-> FALSE, candidates |-> <<>>],
     Candidates(<<<<"{", "hair_count_estimate: 1200", "hair_color: castano", "}">>>>),
     Candidates(<<<<"{", "}">>>>)}

\* a request that posts nothing to the Gemini API meets no reply
NoReply == [transport |-> "none", has_candidates |-> FALSE, candidates |-> <<>>]
RepliesTo(posted) == IF posted = <<>> THEN {NoReply} ELSE ServedReplies

\* document_id: the id of every stored document, and one that is not in use
AnalysisRequests(s) ==
    [document_id : {d.id : d \in AllDocuments(s)} \cup {Uuid(s.uuids + 1)},
     analysis_type : {"capilar"}]

AnalyzeHair ==
    \E credentials \in tokens, request \in AnalysisRequests(Cur) :
      \E reply \in RepliesTo(route_analyze_hair(Cur, credentials, request,
                                                NoReply, clock).posted) :
        LET r == route_analyze_hair(Cur, credentials, request, reply, clock)
        IN /\ Commit(r.st)
           /\ resp' = Response("analyze_hair",
                               [credentials |-> credentials, request |-> request,
                                reply |-> reply, posted |-> r.posted], r)
           /\ UNCHANGED <<clock, tokens, registered, twin, server, coroutines>>

AnalyzeDocument ==
    \E credentials \in tokens, request \in AnalysisRequests(Cur) :
      \E reply \in RepliesTo(route_analyze_document(Cur, credentials, request,
                                                    NoReply, clock).posted) :
        LET r == route_analyze_document(Cur, credentials, request, reply, clock)
        IN /\ Commit(r.st)
           /\ resp' = Response("analyze_document",
                               [credentials |-> credentials, request |-> request,
                                reply |-> reply, posted |-> r.posted], r)
           /\ UNCHANGED <<clock, tokens, registered, twin, server, coroutines>>

\* the two analysis functions, called on a reply of the Gemini API
AskHair ==
    \E reply \in GeminiReplies :
        /\ resp' = [op |-> "analyze_hair_with_gemini", req |-> [reply |-> reply],
                    status |-> 0, detail |-> <<>>,
                    body |-> analyze_hair_with_gemini("AIza-test-key",
                                                      b64encode(JpegMagic), reply)]
        /\ UNCHANGED <<db, mongo_up, mongo, users_storage, records_storage,
                       documents_storage, uuids, clock, tokens, registered, twin, server, coroutines>>

AskDocument ==
    \E reply \in GeminiReplies :
        /\ resp' = [op |-> "analyze_document_with_gemini", req |-> [reply |-> reply],
                    status |-> 0, detail |-> <<>>,
                    body |-> analyze_document_with_gemini("AIza-test-key",
                                                          ExtractText(PdfMagic),
                                                          "pdf", reply)]
        /\ UNCHANGED <<db, mongo_up, mongo, users_storage, records_storage,
                       documents_storage, uuids, clock, tokens, registered, twin, server, coroutines>>

(***************************************************************************)
(* The same request served by both processes.                              *)
(***************************************************************************)
Served(op, req, r) == [st |-> r.st, resp |-> Response(op, req, r)]

BothRegister ==
    \E user \in RegisterRequests :
        /\ RegisterWith(user)
        /\ twin' = Served("register", user, register(twin.st, user, clock))
        /\ UNCHANGED <<server, coroutines>>

BothLogin ==
    \E user_data \in LoginRequests :
        /\ LoginWith(user_data)
        /\ twin' = Served("login", user_data, login(twin.st, user_data, clock))
        /\ UNCHANGED <<server, coroutines>>

BothUploadDocument ==
    \E credentials \in tokens, u \in Uploads :
        /\ UploadDocumentWith(credentials, u[1], u[2], MaxTwinDocuments)
        /\ twin' = Served("upload_document",
                          [credentials |-> credentials, file |-> u[1],
                           document_type |-> u[2]],
                          route_upload_document(twin.st, credentials, u[1],
                                                u[2], clock))
        /\ UNCHANGED <<server, coroutines>>

BothGetDashboard ==
    \E credentials \in tokens :
        \E order \in OrdersFor(Cur, credentials, clock) :
            /\ GetDashboardWith(credentials, order)
            /\ twin' = Served("get_dashboard", [credentials |-> credentials],
                              route_get_dashboard(twin.st, credentials, <<>>, clock))
            /\ UNCHANGED <<server, coroutines>>

(***************************************************************************)
(* The variants server_basic.py and server_dev.py: registration and the    *)
(* /records endpoints.  Their users_storage is a dict keyed by username,   *)
(* the subject of their tokens; server_basic.py runs with db = None (its   *)
(* connection code is commented out), server_dev.py has no database.       *)
(***************************************************************************)
Servers == {"server.py", "server_basic.py", "server_dev.py"}

BASIC_JWT_SECRET == "dev-secret-key"
DEV_JWT_SECRET == "dev-secret-key-for-testing"
ACCESS_TOKEN_EXPIRE_MINUTES == 30

SecretOf(srv) ==
    IF srv = "server.py" THEN JWT_SECRET_KEY
    ELSE IF srv = "server_basic.py" THEN BASIC_JWT_SECRET
    ELSE DEV_JWT_SECRET

\* create_access_token(data, expires_delta) of the variants; the clock counts
\* whole hours
variant_create_access_token(srv, data, now) ==
    LET expire == now + (ACCESS_TOKEN_EXPIRE_MINUTES \div 60)
    IN [sub |-> data.sub, exp |-> expire, sig |-> Sign(SecretOf(srv), data.sub, expire)]

\* get_current_user of the variants: the subject of a token that decodes
variant_get_current_user(srv, credentials, now) ==
    LET payload == jwt_decode(credentials, SecretOf(srv), now)
    IN IF ~payload.ok
       THEN AuthFail(HTTPException(401, <<"Invalid authentication credentials">>))
       ELSE AuthOk(payload.sub)

\* some stored user has this email
variant_email_taken(s, email) ==
    \E u \in DOMAIN s.users_storage : Get(s.users_storage[u], "email", NoneStr) = email

\* server_basic.py register, db None branch
basic_register(s, user, now) ==
    IF user.username \in DOMAIN s.users_storage \/ variant_email_taken(s, user.email)
    THEN Raise(s, HTTPException(400, <<"Username or email already registered">>))
    ELSE LET stored == [username |-> user.username, email |-> user.email,
                        password |-> hash_password(user.password),
                        has_gemini_key |-> FALSE]
         IN Return([s EXCEPT !.users_storage = DictSet(@, user.username, stored)],
                   [access_token |->
                        variant_create_access_token("server_basic.py",
                                                    [sub |-> user.username], now),
                    token_type |-> "bearer",
                    user |-> [id |-> user.username, email |-> user.email,
                              name |-> user.username, has_gemini_key |-> FALSE]])

\* server_dev.py register: a duplicate is answered 200 with success false
dev_register(s, user, now) ==
    IF user.username \in DOMAIN s.users_storage
    THEN Return(s, [success |-> FALSE, detail |-> <<"Username already registered">>])
    ELSE IF variant_email_taken(s, user.email)
    THEN Return(s, [success |-> FALSE, detail |-> <<"Email already registered">>])
    ELSE LET stored == [username |-> user.username, email |-> user.email,
                        password |-> hash_password(user.password)]
         IN Return([s EXCEPT !.users_storage = DictSet(@, user.username, stored)],
                   [access_token |->
                        variant_create_access_token("server_dev.py",
                                                    [sub |-> user.username], now),
                    token_type |-> "bearer", success |-> TRUE,
                    user |-> [username |-> user.username, email |-> user.email]])

\* the record server_basic.py returns when db is None
MockRecord(now) ==
    [id |-> "1", record_type |-> "blood_pressure",
     data |-> [systolic |-> 120, diastolic |-> 80], timestamp |-> now]

basic_get_records(s, current_user, now) ==
    IF s.db = NoneStr THEN Return(s, [records |-> <<MockRecord(now)>>])
    ELSE IF Unavailable(s) THEN Raise(s, ServerSelectionTimeoutError)
    ELSE LET found == find(s.mongo.records, "user_id", current_user)
         IN Return(s, [records |-> [i \in DOMAIN found |-> StrId(found[i])]])

basic_create_record(s, record, current_user, now) ==
    LET s1 == [s EXCEPT !.uuids = @ + 1]
        record_doc == [id |-> Uuid(s.uuids + 1), user_id |-> current_user,
                       record_type |-> record.record_type, data |-> record.data,
                       timestamp |-> now]
    IN IF s.db = NoneStr
       THEN Return(s1, [id |-> Uuid(s.uuids + 1),
                        message |-> "Record created successfully (mock mode)"])
       ELSE IF Unavailable(s) THEN Raise(s, ServerSelectionTimeoutError)
       ELSE Return([s1 EXCEPT !.mongo = insert_one(@, "records", record_doc)],
                   [id |-> record_doc.id, message |-> "Record created successfully"])

\* server_dev.py: records_storage is keyed by the id of the record
dev_get_records(s, current_user) ==
    LET mine == {k \in DOMAIN s.records_storage :
                    s.records_storage[k].user_id = current_user}
        \* dict order: the order of insertion, which is the order of the ids
        nth(i) == CHOOSE k \in mine : Cardinality({j \in mine : j[2] < k[2]}) = i - 1
    IN Return(s, [records |-> [i \in 1..Cardinality(mine) |-> s.records_storage[nth(i)]]])

dev_create_record(s, record, current_user, now) ==
    LET record_id == Uuid(s.uuids + 1)
        record_dict == [id |-> record_id, user_id |-> current_user,
                        record_type |-> record.record_type, data |-> record.data,
                        timestamp |-> now]
    IN Return([s EXCEPT !.uuids = @ + 1,
                        !.records_storage = DictSet(@, record_id, record_dict)],
              [id |-> record_id, message |-> "Record created successfully"])

\* the request served by the file the process runs
serve_register(srv, s, user, now) ==
    IF srv = "server.py" THEN register(s, user, now)
    ELSE IF srv = "server_basic.py" THEN basic_register(s, user, now)
    ELSE dev_register(s, user, now)

serve_create_record(srv, s, credentials, record, now) ==
    IF srv = "server.py" THEN route_create_record(s, credentials, record, now)
    ELSE LET a == variant_get_current_user(srv, credentials, now)
         IN IF a.raised THEN Raise(s, a.exc)
            ELSE IF srv = "server_basic.py"
            THEN basic_create_record(s, record, a.user, now)
            ELSE dev_create_record(s, record, a.user, now)

serve_get_records(srv, s, credentials, now) ==
    IF srv = "server.py" THEN route_get_records(s, credentials, now)
    ELSE LET a == variant_get_current_user(srv, credentials, now)
         IN IF a.raised THEN Raise(s, a.exc)
            ELSE IF srv = "server_basic.py" THEN basic_get_records(s, a.user, now)
            ELSE dev_get_records(s, a.user)

\* the records a process holds, whatever the file it runs
StoredRecords(srv, s) ==
    IF srv = "server_dev.py"
    THEN {s.records_storage[k] : k \in DOMAIN s.records_storage}
    ELSE AllRecords(s)

VariantRegisterRequests ==
    {[email |-> "ana@example.com", username |-> "ana",
      password |-> PasswordOf("ana@example.com")],
     [email |-> "luis@example.com", username |-> "luis",
      password |-> PasswordOf("luis@example.com")]}

VariantRegister ==
    \E user \in VariantRegisterRequests :
        LET r == serve_register(server, Cur, user, clock)
        IN /\ r.st.uuids <= MaxUuids
           /\ Commit(r.st)
           /\ resp' = Response("register", user, r)
           /\ tokens' = IF r.raised \/ "access_token" \notin DOMAIN r.body THEN tokens
                        ELSE Keep(tokens, r.body.access_token)
           /\ UNCHANGED <<clock, registered, twin, server, coroutines>>

VariantCreateRecord ==
    \E credentials \in Presentable, record \in RecordBodies :
        LET r == serve_create_record(server, Cur, credentials, record, clock)
        IN /\ r.st.uuids <= MaxUuids
           /\ Cardinality(StoredRecords(server, r.st)) <= MaxRecords + 1
           /\ Commit(r.st)
           /\ resp' = Response("create_record",
                               [credentials |-> credentials, record |-> record], r)
           /\ UNCHANGED <<clock, tokens, registered, twin, server, coroutines>>

VariantGetRecords ==
    \E credentials \in Presentable :
        LET r == serve_get_records(server, Cur, credentials, clock)
        IN /\ Commit(r.st)
           /\ resp' = Response("get_records", [credentials |-> credentials], r)
           /\ UNCHANGED <<clock, tokens, registered, twin, server, coroutines>>

(***************************************************************************)
(* Specifications.  Next is every request against one process; the others  *)
(* restrict it to the handlers of one concern.                             *)
(***************************************************************************)
Next ==
    \/ Tick
    \/ AnalyzeHair
    \/ AnalyzeDocument
    \/ Register
    \/ Login
    \/ AuthMe
    \/ SetGeminiKey
    \/ GetRecords
    \/ CreateRecord
    \/ UploadFile
    \/ UploadDocument
    \/ GetDocuments
    \/ GetDashboard

Spec == Init /\ [][Next]_vars

\* sessions: registration, login, tokens over time
NextAuth == Tick \/ Register \/ Login \/ AuthMe \/ SetGeminiKey \/ GetDocuments
SpecAuth == Init /\ [][NextAuth]_vars

\* every handler that writes a collection, and login
NextWrites == Register \/ Login \/ SetGeminiKey \/ UploadDocument
SpecWrites == Init /\ [][NextWrites]_vars

\* uploads
NextDocs == Register \/ UploadDocument \/ UploadFile \/ GetDocuments
SpecDocs == Init /\ [][NextDocs]_vars

\* a process that is restarted while clients keep their tokens
NextRestart ==
    \/ Restart
    \/ Register
    \/ GetRecords
    \/ CreateRecord
    \/ GetDocuments
SpecRestart == Init /\ [][NextRestart]_vars

\* two processes, one on MongoDB and one on the in-memory dicts
InitBoth ==
    /\ Started(TRUE, TRUE)
    /\ clock = 0
    /\ tokens = {}
    /\ registered = {}
    /\ resp = NoResponse
    /\ twin = TwinStarted
    /\ server = "server.py"
    /\ coroutines = <<>>
NextBoth == BothRegister \/ BothLogin \/ BothUploadDocument \/ BothGetDashboard
SpecBoth == InitBoth /\ [][NextBoth]_vars

\* The analysis pipeline, on a history: two users registered at hour 0, and
\* HistoryDocuments uploads, the k-th at hour k, by the two users in turn,
\* an image, two PDFs, two images and so on.
HistoryUsers ==
    <<[email |-> "ana@example.com", username |-> "maria",
       password |-> PasswordOf("ana@example.com")],
      [email |-> "luis@example.com", username |-> "maria",
       password |-> PasswordOf("luis@example.com")]>>

HistoryUpload(k) ==
    IF (k \div 2) % 2 = 0
    THEN <<[filename |-> "test_hair_image.jpg", data |-> JpegMagic,
            size |-> MaxUploadBytes], "image">>
    ELSE <<[filename |-> "analisis.pdf", data |-> PdfMagic,
            size |-> MaxUploadBytes], "pdf">>

RECURSIVE History(_, _)
History(env, k) ==
    IF k = 0
    THEN LET r1 == register(Startup(env[1], env[2], EmptyMongo, 0), HistoryUsers[1], 0)
             r2 == register(r1.st, HistoryUsers[2], 0)
         IN [st |-> r2.st,
             tokens |-> <<r1.body.access_token, r2.body.access_token>>,
             ids |-> <<r1.body.user.id, r2.body.user.id>>]
    ELSE LET h == History(env, k - 1)
             u == HistoryUpload(k)
         IN [h EXCEPT !.st = route_upload_document(@, h.tokens[2 - (k % 2)],
                                                   u[1], u[2], k).st]

\* the process is in state s
At(s) ==
    /\ db = s.db
    /\ mongo_up = s.mongo_up
    /\ mongo = s.mongo
    /\ users_storage = s.users_storage
    /\ records_storage = s.records_storage
    /\ documents_storage = s.documents_storage
    /\ uuids = s.uuids

InitAnalysis ==
    /\ \E env \in {e \in Environments : e[1] => e[2]} :
          LET h == History(env, HistoryDocuments)
          IN /\ At(h.st)
             /\ tokens = {h.tokens[1], h.tokens[2]}
             /\ registered = {[email |-> HistoryUsers[i].email,
                               password |-> HistoryUsers[i].password,
                               id |-> h.ids[i]] : i \in 1..2}
    /\ clock = HistoryDocuments
    /\ resp = NoResponse
    /\ twin = TwinStarted
    /\ server = "server.py"
    /\ coroutines = <<>>

\* The listing of a long archive: the two users registered at hour 0, and
\* then ListLimit - 1, ListLimit or ListLimit + 1 images uploaded by the
\* first one at hour 1.
\* The k-th archived document is the one upload_document stores when k - 1
\* documents were stored before it.
ArchiveDocument(h, k) ==
    LET u == HistoryUpload(1)
        before == IF h.st.db # NoneStr
                  THEN [h.st EXCEPT !.uuids = @ + k - 1, !.mongo.oids = @ + k - 1]
                  ELSE [h.st EXCEPT !.uuids = @ + k - 1]
        after == route_upload_document(before, h.tokens[1], u[1], u[2], 1).st
    IN IF h.st.db # NoneStr
       THEN after.mongo.health_documents[Len(after.mongo.health_documents)]
       ELSE ListOf(after.documents_storage, h.ids[1])[1]

Archive(env, n) ==
    LET h == History(env, 0)
        documents == [k \in 1..n |-> ArchiveDocument(h, k)]
    IN IF n = 0 THEN h ELSE
       [h EXCEPT !.st =
           IF @.db # NoneStr
           THEN [@ EXCEPT !.uuids = @ + n, !.mongo.oids = @ + n,
                          !.mongo.health_documents = documents]
           ELSE [@ EXCEPT !.uuids = @ + n,
                          !.documents_storage = DictSet(@, h.ids[1], documents)]]

InitList ==
    /\ \E env \in {e \in Environments : e[1] => e[2]} :
       \E n \in {ListLimit - 1, ListLimit, ListLimit + 1} :
          LET h == Archive(env, n)
          IN /\ At(h.st)
             /\ tokens = {h.tokens[1], h.tokens[2]}
             /\ registered = {[email |-> HistoryUsers[i].email,
                               password |-> HistoryUsers[i].password,
                               id |-> h.ids[i]] : i \in 1..2}
    /\ clock = 1
    /\ resp = NoResponse
    /\ twin = TwinStarted
    /\ server = "server.py"
    /\ coroutines = <<>>

NextList == SetGeminiKey \/ AuthMe \/ GetDocuments
SpecList == InitList /\ [][NextList]_vars

\* The /records endpoints of the three files, each process started without a
\* durable backend or, for server.py, also on a reachable MongoDB.
InitVariants ==
    /\ \E srv \in Servers :
        \E env \in {e \in Environments : e[1] => (e[2] /\ srv = "server.py")} :
            /\ server = srv
            /\ Started(env[1], env[2])
    /\ clock = 0
    /\ tokens = {}
    /\ registered = {}
    /\ resp = NoResponse
    /\ twin = TwinStarted
    /\ coroutines = <<>>

NextVariants == VariantRegister \/ VariantCreateRecord \/ VariantGetRecords
SpecVariants == InitVariants /\ [][NextVariants]_vars

\* the two analysis functions alone
NextGemini == AskHair \/ AskDocument
SpecGemini == Init /\ [][NextGemini]_vars

NextAnalysis ==
    \/ SetGeminiKey
    \/ AnalyzeHair
    \/ AnalyzeDocument
    \/ GetDocuments
    \/ GetDashboard
SpecAnalysis == InitAnalysis /\ [][NextAnalysis]_vars

(***************************************************************************)
(* What the collections hold, whichever backend is selected.               *)
(***************************************************************************)
Users(s) == IF s.db # NoneStr THEN s.mongo.users ELSE s.users_storage

EmailStored(s, email) == \E i \in DOMAIN Users(s) : Users(s)[i].email = email

UserStored(s, user_id) == \E i \in DOMAIN Users(s) : Users(s)[i].id = user_id

\* the three collections of both backends
Collections(s) ==
    [mongo |-> s.mongo, users_storage |-> s.users_storage,
     records_storage |-> s.records_storage,
     documents_storage |-> s.documents_storage]

\* tokens a client holds that the server accepts now
Accepted == {t \in tokens : jwt_decode(t, JWT_SECRET_KEY, clock).ok}

(***************************************************************************)
(* C1.  A register request whose email is the email of a stored user fails *)
(* with status 400 (the status the test reads as "user already exists"),   *)
(* not with the status of an internal error, and stores nothing.           *)
(* The source answers 500: the HTTPException(400) is raised inside the     *)
(* try whose "except Exception" re-raises everything as 500.               *)
(***************************************************************************)
C1_DuplicateEmailIs400 ==
    \A user \in RegisterRequests :
        (~Unavailable(Cur) /\ EmailStored(Cur, user.email)) =>
            LET r == register(Cur, user, clock)
            IN /\ r.raised
               /\ Response("register", user, r).status = 400
               /\ Collections(r.st) = Collections(Cur)

(***************************************************************************)
(* C2.  Every user registered with (email, password) can log in with that  *)
(* email and password in every later state, and the token returned carries *)
(* that user's id as its subject, whatever registrations, logins, key      *)
(* updates and uploads came in between.                                    *)
(***************************************************************************)
C2_LoginAfterRegister ==
    \A c \in registered :
        LET r == login(Cur, [email |-> c.email, password |-> c.password], clock)
        IN /\ ~r.raised
           /\ r.body.access_token.sub = c.id
           /\ r.body.user.id = c.id
           /\ jwt_decode(r.body.access_token, JWT_SECRET_KEY, clock).ok

\* a login that succeeded for the first of two registered users after a key
\* was set and a document was stored
C2_Witness ==
    /\ resp.op = "login"
    /\ resp.status = 200
    /\ \E c \in registered : c.email = resp.req.email /\ c.id = Uuid(1)
                             /\ resp.body.access_token.sub = c.id
    /\ Cardinality(registered) = 2
    /\ \E i \in DOMAIN Users(Cur) : Get(Users(Cur)[i], "has_gemini_key", FALSE)
    /\ AllDocuments(Cur) # {}

(***************************************************************************)
(* C3.  Login does not tell an unknown email from a wrong password: both   *)
(* fail with the same status and the same detail, which do not depend on   *)
(* the stored users, and neither changes any state.                        *)
(***************************************************************************)
C3_LoginNonEnumerating ==
    \A unknown, known \in LoginRequests :
        LET r1 == login(Cur, unknown, clock)
            r2 == login(Cur, known, clock)
        IN (/\ ~Unavailable(Cur)
            /\ ~EmailStored(Cur, unknown.email)
            /\ EmailStored(Cur, known.email)
            /\ ~verify_password(known.password,
                                find_one(Users(Cur), "email", known.email).password))
           => /\ r1.raised /\ r2.raised
              /\ r1.exc = r2.exc
              /\ Response("login", NoBody, r1) = Response("login", NoBody, r2)
              /\ Response("login", NoBody, r1).status = 401
              /\ Response("login", NoBody, r1).detail = <<"Credenciales invalidas">>
              /\ r1.st = Cur /\ r2.st = Cur

\* a login with a wrong password was refused while another email is unknown
C3_Witness ==
    /\ resp.op = "login"
    /\ resp.status = 401
    /\ EmailStored(Cur, resp.req.email)
    /\ \E e \in Emails : ~EmailStored(Cur, e)

(***************************************************************************)
(* C4.  A token issued for user u is accepted by get_current_user and      *)
(* resolves to u at every time before its expiry (24 hours after issue);   *)
(* it is rejected with 401 after its expiry and whenever its signature or  *)
(* payload was altered; and presented to /auth/me it returns u's id and    *)
(* email.  On MongoDB the source returns the document's _id as the id.     *)
(***************************************************************************)
\* the token resolves to exactly its subject while it is not expired
C4_ResolvesUntilExpiry ==
    \A t \in tokens :
        (clock < t.exp /\ ~Unavailable(Cur)) =>
            LET a == get_current_user(Cur, t, clock)
            IN ~a.raised /\ a.user.id = t.sub
               /\ \E c \in registered : c.id = t.sub /\ c.email = a.user.email

\* an expired or altered token is refused with 401 by both dependencies
C4_RejectedAfterExpiryOrAltered ==
    \A t \in tokens : \A p \in {t} \cup Forged(t) :
        (p # t \/ clock > t.exp) =>
            /\ get_current_user(Cur, p, clock) =
                   AuthFail(HTTPException(401, <<"Token invalido">>))
            /\ get_current_user_basic(p, clock) =
                   AuthFail(HTTPException(401, <<"Token invalido">>))

\* /auth/me answers with the id and email of the token's user
C4_AuthMeReturnsUser ==
    \A t \in tokens :
        (clock < t.exp /\ ~Unavailable(Cur)) =>
            LET r == route_auth_me(Cur, t, clock)
            IN /\ ~r.raised
               /\ r.body.id = t.sub
               /\ \E c \in registered : c.id = t.sub /\ c.email = r.body.email

C4_TokenLifecycle ==
    /\ C4_ResolvesUntilExpiry
    /\ C4_RejectedAfterExpiryOrAltered
    /\ C4_AuthMeReturnsUser

(***************************************************************************)
(* C5.  Every authenticated route refuses a validly signed, unexpired      *)
(* token whose subject is no stored user ("Usuario no encontrado" / "User  *)
(* not found") and writes nothing; such a token exists after a restart     *)
(* emptied the in-memory users.  The routes that depend on                 *)
(* get_current_user_basic never look the subject up: create_record stores  *)
(* a record for it.                                                        *)
(***************************************************************************)
IdentityNotFound(r) ==
    /\ r.raised
    /\ r.exc.type = "HTTPException"
    /\ r.exc.status_code \in {401, 404}
    /\ r.exc.detail \in {<<"Usuario no encontrado">>, <<"User not found">>}

Refused(s, r) == IdentityNotFound(r) /\ Collections(r.st) = Collections(s)

C5_UnknownSubjectRefused ==
    \A t \in Accepted :
        (~UserStored(Cur, t.sub) /\ ~Unavailable(Cur)) =>
            /\ Refused(Cur, route_get_documents(Cur, t, clock))
            /\ \A file \in Files, document_type \in DocumentTypes :
                  Refused(Cur, route_upload_document(Cur, t, file, document_type, clock))
            /\ Refused(Cur, route_get_dashboard(Cur, t, <<>>, clock))
            /\ Refused(Cur, route_auth_me(Cur, t, clock))
            /\ \A payload \in GeminiKeyPayloads :
                  Refused(Cur, route_set_gemini_key(Cur, t, payload, clock))
            /\ Refused(Cur, route_get_records(Cur, t, clock))
            /\ \A file \in Files : Refused(Cur, route_upload_file(Cur, t, file, clock))
            /\ \A record \in RecordBodies :
                  Refused(Cur, route_create_record(Cur, t, record, clock))

(***************************************************************************)
(* C6.  When MongoDB cannot be reached at startup the in-memory backend is *)
(* selected and every later request is served from it.  The source only    *)
(* constructs the client, which connects lazily: db stays set and every    *)
(* request fails on the unreachable server.                                *)
(***************************************************************************)
C6_UnreachableFallsBackToMemory ==
    (~mongo_up /\ resp.op # "none") => (db = NoneStr /\ resp.status # 500)

C8_OnlyImageOrPdf ==
    /\ \A d \in AllDocuments(Cur) : d.document_type \in {"image", "pdf"}
    /\ \A t \in Accepted, file \in Files, document_type \in DocumentTypes :
          (document_type \notin {"image", "pdf"} /\ UserStored(Cur, t.sub)) =>
              LET r == route_upload_document(Cur, t, file, document_type, clock)
              IN r.raised /\ Collections(r.st) = Collections(Cur)

(***************************************************************************)
(* C9.  upload_document answers 413 exactly when the file is larger than   *)
(* 10 MiB (a file of exactly 10 MiB is not refused for its size), and a    *)
(* refused upload stores nothing.  The source raises the 413 inside the    *)
(* try whose "except Exception" turns it into a 500.                       *)
(***************************************************************************)
C9_TooLargeIs413 ==
    \A t \in Accepted, file \in Files, document_type \in DocumentTypes :
        (UserStored(Cur, t.sub) /\ ~Unavailable(Cur)) =>
            LET r == route_upload_document(Cur, t, file, document_type, clock)
                status == Response("upload_document", NoBody, r).status
            IN /\ (status = 413) <=> (file.size > MaxUploadBytes)
               /\ (file.size > MaxUploadBytes) => Collections(r.st) = Collections(Cur)

(***************************************************************************)
(* C10.  When the text of an uploaded PDF cannot be extracted the upload   *)
(* fails (the handler's error response carrying the extraction error) and  *)
(* nothing is stored: the collections, and so the documents, are unchanged.*)
(***************************************************************************)
C10_ExtractionFailureStoresNothing ==
    \A t \in Accepted, file \in Files :
        (UserStored(Cur, t.sub) /\ ~Unavailable(Cur)
         /\ file.size <= MaxUploadBytes /\ ~PdfReadable(file.data)) =>
            LET r == route_upload_document(Cur, t, file, "pdf", clock)
            IN /\ r.raised
               /\ r.exc = HTTPException(500, <<"Error al subir documento: ">>
                                              \o PdfReadError.detail)
               /\ Collections(r.st) = Collections(Cur)
               /\ r.st.uuids = Cur.uuids

\* an upload of bytes that are no PDF, as a pdf, failed after another
\* document of the user had been stored
C10_Witness ==
    /\ resp.op = "upload_document"
    /\ resp.req.document_type = "pdf"
    /\ ~PdfReadable(resp.req.file.data)
    /\ resp.req.credentials \in Accepted
    /\ resp.status = 500
    /\ resp.detail = <<"Error al subir documento: ">> \o PdfReadError.detail
    /\ Cardinality(AllDocuments(Cur)) = 1

(***************************************************************************)
(* C11.  analyze_hair and analyze_document answer 400 (no API key          *)
(* configured) to every caller who has no stored key, whether the named    *)
(* document exists, is theirs, or neither; they post nothing to the Gemini *)
(* API and change nothing.  Once set_gemini_key succeeded for that caller, *)
(* the same request no longer fails for the missing key.                   *)
(***************************************************************************)
\* the stored user a token is for has a key
HasKey(s, user_id) ==
    \E i \in DOMAIN Users(s) :
        Users(s)[i].id = user_id /\ TruthyStr(Get(Users(s)[i], "gemini_api_key", NoneStr))

\* the outcome is the refusal `exc`, with nothing posted and nothing changed
RefusedWith(s, r, exc) ==
    r.raised /\ r.exc = exc /\ r.posted = <<>> /\ r.st = s

C11_MissingKeyFirst ==
    \A t \in Accepted, request \in AnalysisRequests(Cur), reply \in GeminiReplies :
        (UserStored(Cur, t.sub) /\ ~HasKey(Cur, t.sub)) =>
            /\ RefusedWith(Cur, route_analyze_hair(Cur, t, request, reply, clock),
                           MissingKeyError)
            /\ RefusedWith(Cur, route_analyze_document(Cur, t, request, reply, clock),
                           MissingKeyError)
            /\ Response("analyze_hair", NoBody,
                        route_analyze_hair(Cur, t, request, reply, clock)).status = 400
            /\ \A payload \in GeminiKeyPayloads :
                  LET k == route_set_gemini_key(Cur, t, payload, clock)
                  IN ~k.raised =>
                       /\ route_analyze_hair(k.st, t, request, reply, clock).exc
                              # MissingKeyError
                       /\ route_analyze_document(k.st, t, request, reply, clock).exc
                              # MissingKeyError

\* a caller without a key was refused for a document of their own, while the
\* other user has a key
C11_Witness ==
    /\ resp.op = "analyze_hair"
    /\ resp.status = 400
    /\ resp.detail = MissingKeyError.detail
    /\ \E d \in AllDocuments(Cur) :
          d.id = resp.req.request.document_id /\ d.user_id = resp.req.credentials.sub
    /\ \E c \in registered : c.id # resp.req.credentials.sub /\ HasKey(Cur, c.id)

(***************************************************************************)
(* C12.  For a caller who has a key, an analysis of another user's         *)
(* document fails with 404 "Documento no encontrado", exactly as for an id *)
(* that names no document, and leaves every document as it was.            *)
(***************************************************************************)
C12_ForeignDocumentIsNotFound ==
    \A t \in Accepted, d \in AllDocuments(Cur), reply \in GeminiReplies :
        (HasKey(Cur, t.sub) /\ d.user_id # t.sub) =>
            LET theirs == [document_id |-> d.id, analysis_type |-> "capilar"]
                nowhere == [document_id |-> Uuid(uuids + 1), analysis_type |-> "capilar"]
            IN /\ RefusedWith(Cur, route_analyze_hair(Cur, t, theirs, reply, clock),
                              DocumentNotFoundError)
               /\ RefusedWith(Cur, route_analyze_document(Cur, t, theirs, reply, clock),
                              DocumentNotFoundError)
               /\ route_analyze_hair(Cur, t, theirs, reply, clock)
                      = route_analyze_hair(Cur, t, nowhere, reply, clock)
               /\ route_analyze_document(Cur, t, theirs, reply, clock)
                      = route_analyze_document(Cur, t, nowhere, reply, clock)
               /\ Response("analyze_hair", NoBody,
                           route_analyze_hair(Cur, t, theirs, reply, clock)).status = 404

\* a caller with a key asked for the analysis of the other user's document
C12_Witness ==
    /\ resp.op \in {"analyze_hair", "analyze_document"}
    /\ resp.status = 404
    /\ HasKey(Cur, resp.req.credentials.sub)
    /\ \E d \in AllDocuments(Cur) :
          d.id = resp.req.request.document_id /\ d.user_id # resp.req.credentials.sub

(***************************************************************************)
(* C13.  For a document of the caller, analyze_document on an image and    *)
(* analyze_hair on a PDF answer 400, post nothing to the Gemini API and    *)
(* leave the document, with its analysis_result, as it was.                *)
(***************************************************************************)
C13_TypeMismatchIs400 ==
    \A t \in Accepted, d \in AllDocuments(Cur), reply \in GeminiReplies :
        (HasKey(Cur, t.sub) /\ d.user_id = t.sub) =>
            LET request == [document_id |-> d.id, analysis_type |-> "capilar"]
                hair == route_analyze_hair(Cur, t, request, reply, clock)
                document == route_analyze_document(Cur, t, request, reply, clock)
            IN /\ d.document_type = "image" =>
                     RefusedWith(Cur, document, HTTPException(400,
                         <<"El analisis de documentos solo funciona con PDFs">>))
               /\ d.document_type = "pdf" =>
                     RefusedWith(Cur, hair, HTTPException(400,
                         <<"El analisis capilar solo funciona con imagenes">>))

\* analyze_document was refused for an image of the caller that carries an
\* analysis
C13_Witness ==
    /\ resp.op = "analyze_document"
    /\ resp.status = 400
    /\ \E d \in AllDocuments(Cur) :
          /\ d.id = resp.req.request.document_id
          /\ d.user_id = resp.req.credentials.sub
          /\ d.document_type = "image"
          /\ d.analysis_result # None

(***************************************************************************)
(* C14.  When the call to the Gemini API fails in transport (a timeout, a  *)
(* connection error, a non-2xx status), the analysis endpoint answers with *)
(* an error, never with a successful analysis response, and stores         *)
(* nothing.                                                                *)
(***************************************************************************)
C14_TransportFailureIsAnError ==
    (/\ resp.op \in {"analyze_hair", "analyze_document"}
     /\ resp.req.posted # <<>>
     /\ resp.req.reply.transport \in RequestExceptions)
        => /\ resp.status >= 400
           /\ \A d \in AllDocuments(Cur) :
                 d.id = resp.req.request.document_id =>
                     d.analysis_result \notin
                         {HairError(<<"Revisar imagen y reintentar analisis">>),
                          DocumentError(<<"Error de conexion: ">>
                              \o Str(RequestException(resp.req.reply.transport)))}

(***************************************************************************)
(* C15.  When the Gemini API answers without a candidate (no "candidates"  *)
(* key, or an empty list), the analysis of a document of the caller fails: *)
(* the caller receives an error and the document is left as it was.        *)
(***************************************************************************)
C15_NoCandidateIsAnError ==
    \A t \in Accepted, d \in AllDocuments(Cur), reply \in EmptyReplies :
        (HasKey(Cur, t.sub) /\ d.user_id = t.sub) =>
            LET request == [document_id |-> d.id, analysis_type |-> "capilar"]
                r == IF d.document_type = "image"
                     THEN route_analyze_hair(Cur, t, request, reply, clock)
                     ELSE route_analyze_document(Cur, t, request, reply, clock)
            IN r.raised /\ r.st = Cur

(***************************************************************************)
(* C16.  When the Gemini API answers with a first generated text that does *)
(* not hold a JSON object from its first "{" to its last "}" (no "{", a    *)
(* "{" without a later "}", or braces around something that is not JSON),  *)
(* analyze_hair_with_gemini returns the fallback result: its one           *)
(* recommendation is "Analisis: ", the first 200 characters of the text    *)
(* and "...", and its confidence_score is 0.7 whatever the text.           *)
(***************************************************************************)
\* the text from its first "{" to its last "}" is a JSON object
IsJsonObject(text) ==
    \E i, j \in DOMAIN text :
        /\ i < j
        /\ text[i] = "{" /\ \A k \in 1..(i - 1) : text[k] # "{"
        /\ text[j] = "}" /\ \A k \in (j + 1)..Len(text) : text[k] # "}"
        /\ \A k \in (i + 1)..(j - 1) : text[k] \in DOMAIN Members

\* the first n characters of the text
Prefix(text, n) == [i \in 1..(IF Len(text) < n THEN Len(text) ELSE n) |-> text[i]]

C16_UnparseableTextIsDegraded ==
    (/\ resp.op = "analyze_hair_with_gemini"
     /\ resp.req.reply.transport = "ok"
     /\ resp.req.reply.has_candidates
     /\ resp.req.reply.candidates # <<>>
     /\ ~IsJsonObject(resp.req.reply.candidates[1]))
        => /\ resp.body.recommendations =
                 JsonList(<<<<"Analisis: ">> \o Prefix(resp.req.reply.candidates[1], 200)
                            \o <<"...">>>>)
           /\ resp.body.confidence_score = JsonFloat("0.7")
           /\ resp.body.baldness_zones # JsonList(<<<<"Error en analisis">>>>)

\* the function was called on a text of more than 200 characters without braces
C16_Witness ==
    /\ resp.op = "analyze_hair_with_gemini"
    /\ resp.req.reply.transport = "ok"
    /\ resp.req.reply.candidates # <<>>
    /\ Len(resp.req.reply.candidates[1]) > 200
    /\ ~IsJsonObject(resp.req.reply.candidates[1])
    /\ Len(resp.body.recommendations.items[1]) = 202

(***************************************************************************)
(* C17.  When the generated text holds a JSON object whose recognised      *)
(* members have values of their types, analyze_hair_with_gemini and        *)
(* analyze_document_with_gemini return a result with exactly the           *)
(* recognised fields: each one absent from the JSON is null or an empty    *)
(* list, each one present has its value, and no other member of the JSON   *)
(* is carried.                                                             *)
(***************************************************************************)
\* the fields the document prompt asks for (lines 340-345)
DocumentFieldNames == {"main_findings", "recommendations", "follow_up_points", "summary"}

\* the members written in the text, and the keys they give
MembersOf(text) == {text[k] : k \in {i \in DOMAIN text : text[i] \in DOMAIN Members}}
KeysOf(text) == {Members[m].key : m \in MembersOf(text)}

\* the function `op` was called on a text holding a JSON object whose members
\* have values of their fields' types, no key twice
ParsedBy(op) ==
    /\ resp.op = op
    /\ resp.req.reply.transport = "ok"
    /\ resp.req.reply.candidates # <<>>
    /\ IsJsonObject(resp.req.reply.candidates[1])
    /\ \A m \in MembersOf(resp.req.reply.candidates[1]) :
          /\ Members[m].key \in DOMAIN HairFields =>
                Members[m].value.json \in HairFields[Members[m].key]
          /\ \A n \in MembersOf(resp.req.reply.candidates[1]) :
                Members[n].key = Members[m].key => n = m

\* the result has exactly the recognised fields, from the text or defaulted
Normalised(result, recognised, text) ==
    /\ DOMAIN result = recognised
    /\ \A f \in recognised \ KeysOf(text) : result[f] \in {JsonNull, JsonList(<<>>)}
    /\ \A m \in MembersOf(text) :
          Members[m].key \in recognised => result[Members[m].key] = Members[m].value

C17_HairResultIsNormalised ==
    ParsedBy("analyze_hair_with_gemini")
        => Normalised(resp.body, DOMAIN HairFields, resp.req.reply.candidates[1])

C17_DocumentResultIsNormalised ==
    ParsedBy("analyze_document_with_gemini")
        => Normalised(resp.body, DocumentFieldNames, resp.req.reply.candidates[1])

C17_ParsedResultIsNormalised ==
    C17_HairResultIsNormalised /\ C17_DocumentResultIsNormalised

(***************************************************************************)
(* C18.  An analysis of a document of the caller, of the type the endpoint *)
(* analyses, succeeds whatever result the document already carries; after  *)
(* it the document's analysis_result is the returned result, in place of   *)
(* the earlier one, and nothing else has changed.                          *)
(***************************************************************************)
C18_StoredIsReturned ==
    \A t \in Accepted, d \in AllDocuments(Cur), reply \in GeminiReplies :
        (HasKey(Cur, t.sub) /\ d.user_id = t.sub) =>
            LET request == [document_id |-> d.id, analysis_type |-> "capilar"]
                r == IF d.document_type = "image"
                     THEN route_analyze_hair(Cur, t, request, reply, clock)
                     ELSE route_analyze_document(Cur, t, request, reply, clock)
            IN /\ ~r.raised
               /\ Response("analyze", NoBody, r).status = 200
               /\ AllDocuments(r.st) =
                      (AllDocuments(Cur) \ {d})
                          \cup {[d EXCEPT !.analysis_result = r.body.analysis_result]}
               /\ Users(r.st) = Users(Cur)
               /\ AllRecords(r.st) = AllRecords(Cur)

\* a document was analysed, and another reply would replace the result it
\* carries by a different one
C18_Witness ==
    /\ resp.op \in {"analyze_hair", "analyze_document"}
    /\ resp.status = 200
    /\ \E d \in AllDocuments(Cur) :
          /\ d.id = resp.req.request.document_id
          /\ d.analysis_result = resp.body.analysis_result
          /\ \E reply \in ServedReplies :
                LET r == IF d.document_type = "image"
                         THEN route_analyze_hair(Cur, resp.req.credentials,
                                                 resp.req.request, reply, clock)
                         ELSE route_analyze_document(Cur, resp.req.credentials,
                                                     resp.req.request, reply, clock)
                IN /\ ~r.raised
                   /\ r.body.analysis_result # d.analysis_result
                   /\ \E e \in AllDocuments(r.st) :
                         e.id = d.id /\ e.analysis_result = r.body.analysis_result

(***************************************************************************)
(* C19.  get_documents answers a user with exactly one summary for each    *)
(* document stored for that user and none for a document of another user;  *)
(* a summary has the fields id, filename, type, created_at and             *)
(* has_analysis, and no other.                                             *)
(***************************************************************************)
\* every summary is of one document of the caller, no document twice, and
\* has the five fields
C19_SummariesAreOwn ==
    (resp.op = "get_documents" /\ resp.status = 200) =>
        LET listed == resp.body.documents
            own == {[id |-> d.id, filename |-> d.original_filename,
                     type |-> d.document_type, created_at |-> d.created_at] :
                        d \in {e \in AllDocuments(Cur) :
                                  e.user_id = resp.req.credentials.sub}}
        IN /\ \A i \in DOMAIN listed :
                /\ DOMAIN listed[i] = {"id", "filename", "type", "created_at",
                                        "has_analysis"}
                /\ [id |-> listed[i].id, filename |-> listed[i].filename,
                     type |-> listed[i].type, created_at |-> listed[i].created_at]
                       \in own
           /\ Cardinality({listed[i].id : i \in DOMAIN listed}) = Len(listed)

\* every document of the caller is listed
C19_EveryDocumentListed ==
    (resp.op = "get_documents" /\ resp.status = 200) =>
        \A d \in AllDocuments(Cur) :
            d.user_id = resp.req.credentials.sub =>
                \E i \in DOMAIN resp.body.documents : resp.body.documents[i].id = d.id

C19_OneSummaryPerDocument == C19_EveryDocumentListed /\ C19_SummariesAreOwn

(***************************************************************************)
(* C20.  get_dashboard answers user u from the window W of the (at most    *)
(* 10) most recently created documents of u: total_documents is the size   *)
(* of W, analyzed_documents the number of documents of W that carry an     *)
(* analysis result, and recent_analyses the min(5, analyzed_documents)     *)
(* most recently created of these, most recent first, each with its        *)
(* result.                                                                 *)
(***************************************************************************)
\* the documents of the user among which fewer than `limit` are newer
MostRecent(docs, limit) ==
    {d \in docs : Cardinality({e \in docs : e.created_at > d.created_at}) < limit}

\* the dashboard is the one of the window, `analysed` telling which
\* documents count as analysed
DashboardOf(body, mine, analysed) ==
    LET W == MostRecent(mine, 10)
        A == {d \in W : d \in analysed}
    IN /\ body.total_documents = Cardinality(W)
       /\ body.analyzed_documents = Cardinality(A)
       /\ Len(body.recent_analyses) = IF Cardinality(A) < 5 THEN Cardinality(A) ELSE 5
       /\ \A i \in DOMAIN body.recent_analyses :
             \E d \in A :
                /\ Cardinality({e \in A : e.created_at > d.created_at}) = i - 1
                /\ body.recent_analyses[i] =
                       [id |-> d.id, filename |-> d.original_filename,
                        type |-> d.document_type, created_at |-> d.created_at,
                        analysis |-> d.analysis_result]

\* the documents of the user the dashboard was served to
DashboardDocuments ==
    {d \in AllDocuments(Cur) : d.user_id = resp.req.credentials.sub}

\* with "analysed" read as: the stored result is neither None nor empty
C20_CountsNonEmptyResults ==
    (resp.op = "get_dashboard" /\ resp.status = 200) =>
        DashboardOf(resp.body, DashboardDocuments,
                    {d \in DashboardDocuments : HasAnalysis(d)})

C20_DashboardCountsWindow ==
    (resp.op = "get_dashboard" /\ resp.status = 200) =>
        DashboardOf(resp.body, DashboardDocuments,
                    {d \in DashboardDocuments : d.analysis_result # None})

(***************************************************************************)
(* C21.  In a process of server.py, server_basic.py or server_dev.py       *)
(* without a durable backend, after a create_record by user u was answered *)
(* 200, a get_records by u returns a list that holds the created record,   *)
(* and only records whose user_id is u.                                    *)
(***************************************************************************)
\* the id of the record a create_record response tells
CreatedId == IF server = "server.py" THEN resp.body.record.id ELSE resp.body.id

ReadsOwnRecord ==
    (resp.op = "create_record" /\ resp.status = 200 /\ db = NoneStr) =>
        LET g == serve_get_records(server, Cur, resp.req.credentials, clock)
        IN /\ ~g.raised
           /\ \E i \in DOMAIN g.body.records :
                 /\ "user_id" \in DOMAIN g.body.records[i]
                 /\ g.body.records[i].id = CreatedId
           /\ \A i \in DOMAIN g.body.records :
                 /\ "user_id" \in DOMAIN g.body.records[i]
                 /\ g.body.records[i].user_id = resp.req.credentials.sub

C21_ReadsOwnRecordInServerAndDev == server # "server_basic.py" => ReadsOwnRecord

C21_ReadYourRecords == server \in Servers /\ ReadsOwnRecord

(***************************************************************************)
(* Concurrent requests.  A coroutine runs without interruption from one    *)
(* await to the next; at an await the event loop may run another request.  *)
(* register awaits db.users.find_one and db.users.insert_one on the        *)
(* durable backend, and nothing on the in-memory backend.                  *)
(***************************************************************************)
MaxCoroutines == 2

\* a request suspended at an await, with the locals it resumes with
Suspended(op, req, pc, locals) ==
    [op |-> op, req |-> req, pc |-> pc, locals |-> locals, resp |-> NoResponse]
Finished(c, r) ==
    [c EXCEPT !.pc = "done", !.resp = Response(c.op, c.req, r)]
Running == {i \in DOMAIN coroutines : coroutines[i].pc # "done"}

\* register up to the completion of: await db.users.find_one({"email": ...})
register_find_one(s, user) ==
    IF Unavailable(s) THEN Raise(s, ServerSelectionTimeoutError)
    ELSE Return(s, [user_exists |->
                      \E i \in DOMAIN s.mongo.users : s.mongo.users[i].email = user.email])

\* register from there to its return, through: await db.users.insert_one(...)
register_insert_one(s, user, user_exists, now) ==
    IF user_exists
    THEN Raise(s, HTTPException(400, <<"El email ya esta registrado">>))
    ELSE IF Unavailable(s) THEN Raise(s, ServerSelectionTimeoutError)
    ELSE
    LET user_id == Uuid(s.uuids + 1)
        user_data == [id |-> user_id, email |-> user.email, name |-> user.username,
                      password |-> hash_password(user.password),
                      has_gemini_key |-> FALSE]
        s1 == [s EXCEPT !.uuids = @ + 1, !.mongo = insert_one(@, "users", user_data)]
        access_token == create_access_token([sub |-> user_id], now)
    IN Return(s1, [access_token |-> access_token, token_type |-> "bearer",
                   user |-> UserResponse(user_id, user.email, user.username, FALSE)])

\* except Exception as e: raise HTTPException(500, ...)
register_except(r) ==
    IF r.raised
    THEN Raise(r.st, HTTPException(500, <<"Registration error: ">> \o Str(r.exc)))
    ELSE r

\* a register request arrives at the durable backend and runs to its first await
RegisterFindOne ==
    /\ db # NoneStr
    /\ Len(coroutines) < MaxCoroutines
    /\ \E user \in RegisterRequests :
          LET r == register_find_one(Cur, user)
              c == Suspended("register", user, "find_one",
                             IF r.raised THEN [user_exists |-> FALSE] ELSE r.body)
          IN /\ coroutines' = Append(coroutines,
                                     IF r.raised THEN Finished(c, register_except(r))
                                     ELSE c)
             /\ resp' = IF r.raised THEN Response("register", user, register_except(r))
                        ELSE resp
    /\ UNCHANGED <<db, mongo_up, mongo, users_storage, records_storage,
                   documents_storage, uuids, clock, tokens, registered, twin, server>>

\* the event loop resumes a register request after find_one; it runs to its end
RegisterInsertOne ==
    \E i \in Running :
        LET c == coroutines[i]
            r == register_except(
                    register_insert_one(Cur, c.req, c.locals.user_exists, clock))
        IN /\ c.op = "register"
           /\ r.st.uuids <= MaxUuids
           /\ Commit(r.st)
           /\ coroutines' = [coroutines EXCEPT ![i] = Finished(c, r)]
           /\ resp' = Response("register", c.req, r)
           /\ tokens' = IF r.raised THEN tokens ELSE Keep(tokens, r.body.access_token)
           /\ registered' = IF r.raised THEN registered
                            ELSE registered \cup {[email |-> c.req.email,
                                                   password |-> c.req.password,
                                                   id |-> r.body.user.id]}
           /\ UNCHANGED <<clock, twin, server>>

\* on the in-memory backend register has no await: it runs as one step
RegisterInMemory ==
    /\ db = NoneStr
    /\ Len(coroutines) < MaxCoroutines
    /\ \E user \in RegisterRequests :
          /\ RegisterWith(user)
          /\ coroutines' = Append(coroutines,
                Finished(Suspended("register", user, "start", [user_exists |-> FALSE]),
                         register(Cur, user, clock)))
    /\ UNCHANGED <<twin, server>>

\* the MongoDB server goes away or comes back
MongoFlips ==
    /\ db # NoneStr
    /\ mongo_up' = ~mongo_up
    /\ UNCHANGED <<db, mongo, users_storage, records_storage, documents_storage,
                   uuids, clock, tokens, registered, resp, twin, server, coroutines>>

NextRegisters == RegisterFindOne \/ RegisterInsertOne \/ RegisterInMemory \/ MongoFlips
SpecRegisters == Init /\ [][NextRegisters]_vars

StoredUsers == IF db # NoneStr THEN mongo.users ELSE users_storage
Succeeded(op) == {i \in DOMAIN coroutines : /\ coroutines[i].op = op
                                            /\ coroutines[i].pc = "done"
                                            /\ coroutines[i].resp.status = 200}

\* C22 (in-memory backend): register runs between no two awaits, so at most
\* one registration per email succeeds and the stored emails are pairwise
\* distinct.
C22_InMemoryEmailsAreUnique ==
    db = NoneStr =>
        /\ \A i, j \in DOMAIN users_storage :
              users_storage[i].email = users_storage[j].email => i = j
        /\ \A i, j \in Succeeded("register") :
              coroutines[i].req.email = coroutines[j].req.email => i = j

\* C22: under every interleaving of concurrent register requests, on either
\* backend, at most one registration per email succeeds and the stored users
\* have pairwise distinct emails.
C22_EmailsAreUnique ==
    /\ \A i, j \in DOMAIN StoredUsers :
          StoredUsers[i].email = StoredUsers[j].email => i = j
    /\ \A i, j \in Succeeded("register") :
          coroutines[i].req.email = coroutines[j].req.email => i = j

(***************************************************************************)
(* Overlapping analysis requests.  On the durable backend analyze_hair and *)
(* analyze_document await find_one (after the dependency's own find_one),  *)
(* then run to the await of update_one: the adapter awaits nothing, its    *)
(* requests.post blocks the event loop.  MongoDB applies each update_one   *)
(* as a whole, in the order the updates reach it.  On the in-memory        *)
(* backend the handlers await nothing that suspends.                       *)
(***************************************************************************)
AnalysisOps == {"analyze_hair", "analyze_document"}
RequiredType(op) == IF op = "analyze_hair" THEN "image" ELSE "pdf"
TypeMismatchError(op) ==
    HTTPException(400, IF op = "analyze_hair"
                       THEN <<"El analisis capilar solo funciona con imagenes">>
                       ELSE <<"El analisis de documentos solo funciona con PDFs">>)
CompletedMessage(op) ==
    IF op = "analyze_hair" THEN "Analisis completado exitosamente"
    ELSE "Analisis de documento completado"

\* result = await analyze_..._with_gemini(current_user.gemini_api_key, ...)
Analysis(op, current_user, document, reply) ==
    IF op = "analyze_hair"
    THEN analyze_hair_with_gemini(current_user.gemini_api_key, document.content, reply)
    ELSE analyze_document_with_gemini(current_user.gemini_api_key, document.content,
                                      document.document_type, reply)

route_analyze(op, s, credentials, request, reply, now) ==
    IF op = "analyze_hair" THEN route_analyze_hair(s, credentials, request, reply, now)
    ELSE route_analyze_document(s, credentials, request, reply, now)

\* the handler, dependency included, up to the completion of its find_one
analyze_find_one(s, credentials, request, now) ==
    LET a == get_current_user(s, credentials, now)
    IN IF a.raised THEN Raise(s, a.exc)
       ELSE IF ~TruthyStr(a.user.gemini_api_key) THEN Raise(s, MissingKeyError)
       ELSE IF Unavailable(s) THEN Raise(s, ServerSelectionTimeoutError)
       ELSE LET document == FindDocument(s, request.document_id, a.user.id)
            IN IF document = None THEN Raise(s, DocumentNotFoundError)
               ELSE Return(s, [current_user |-> a.user, document |-> document])

\* the locals of a suspended analysis; turn: the position of its update
\* among the updates MongoDB applied
AnalysisLocals(current_user, document, reply, result, turn) ==
    [current_user |-> current_user, document |-> document, reply |-> reply,
     result |-> result, turn |-> turn]

\* the overlapping requests are requests of the owner of a document
OwnRequests(s, credentials) ==
    {request \in AnalysisRequests(s) :
        \E d \in AllDocuments(s) : /\ d.id = request.document_id
                                   /\ d.user_id = credentials.sub}

Analyses == {i \in DOMAIN coroutines : coroutines[i].op \in AnalysisOps}
Applied == {i \in Analyses : coroutines[i].locals.turn > 0}

\* an analysis request arrives at the durable backend and runs to the await
\* of find_one; a request refused before is answered at once
AnalysisFindOne ==
    /\ db # NoneStr
    /\ Len(coroutines) < MaxCoroutines
    /\ \E op \in AnalysisOps, credentials \in tokens :
        \E request \in OwnRequests(Cur, credentials) :
          LET r == analyze_find_one(Cur, credentials, request, clock)
              req == [credentials |-> credentials, request |-> request]
          IN IF r.raised
             THEN /\ resp' = Response(op, req, r)
                  /\ UNCHANGED coroutines
             ELSE /\ coroutines' = Append(coroutines,
                        Suspended(op, req, "find_one",
                                  AnalysisLocals(r.body.current_user, r.body.document,
                                                 NoReply, None, 0)))
                  /\ UNCHANGED resp
    /\ UNCHANGED <<db, mongo_up, mongo, users_storage, records_storage,
                   documents_storage, uuids, clock, tokens, registered, twin, server>>

\* resumed after find_one: the type check, the call of the Gemini API, and
\* update_one sent to MongoDB
AnalysisPost ==
    /\ \E i \in Running, reply \in ServedReplies :
          LET c == coroutines[i]
              l == c.locals
          IN /\ c.op \in AnalysisOps
             /\ c.pc = "find_one"
             /\ IF l.document.document_type # RequiredType(c.op)
                THEN /\ coroutines' = [coroutines EXCEPT ![i] =
                            Finished(c, Raise(Cur, TypeMismatchError(c.op)))]
                     /\ resp' = Response(c.op, c.req, Raise(Cur, TypeMismatchError(c.op)))
                ELSE /\ coroutines' = [coroutines EXCEPT ![i] =
                            [c EXCEPT !.pc = "update_one",
                                      !.locals.reply = reply,
                                      !.locals.result =
                                          Analysis(c.op, l.current_user, l.document, reply)]]
                     /\ UNCHANGED resp
    /\ UNCHANGED <<db, mongo_up, mongo, users_storage, records_storage,
                   documents_storage, uuids, clock, tokens, registered, twin, server>>

\* MongoDB applies the update_one of a suspended analysis, which then returns
AnalysisUpdateOne ==
    \E i \in Running :
        LET c == coroutines[i]
            l == c.locals
            r == Return(SaveAnalysis(Cur, c.req.request.document_id,
                                     l.current_user.id, l.result),
                        [analysis_result |-> l.result, message |-> CompletedMessage(c.op)])
        IN /\ c.op \in AnalysisOps
           /\ c.pc = "update_one"
           /\ Commit(r.st)
           /\ coroutines' = [coroutines EXCEPT ![i] =
                  Finished([c EXCEPT !.locals.turn = Cardinality(Applied) + 1], r)]
           /\ resp' = Response(c.op, c.req, r)
           /\ UNCHANGED <<clock, tokens, registered, twin, server>>

\* on the in-memory backend an analysis runs as one step
AnalysisInMemory ==
    /\ db = NoneStr
    /\ Len(coroutines) < MaxCoroutines
    /\ \E op \in AnalysisOps, credentials \in tokens :
       \E request \in OwnRequests(Cur, credentials) :
        \E reply \in RepliesTo(route_analyze(op, Cur, credentials, request,
                                             NoReply, clock).posted) :
          LET r == route_analyze(op, Cur, credentials, request, reply, clock)
              req == [credentials |-> credentials, request |-> request]
              a == analyze_find_one(Cur, credentials, request, clock)
          IN /\ Commit(r.st)
             /\ resp' = Response(op, req, r)
             /\ coroutines' =
                  IF r.raised THEN coroutines
                  ELSE Append(coroutines,
                         Finished(Suspended(op, req, "start",
                                    AnalysisLocals(a.body.current_user, a.body.document,
                                                   reply, r.body.analysis_result,
                                                   Cardinality(Applied) + 1)), r))
    /\ UNCHANGED <<clock, tokens, registered, twin, server>>

\* the history of InitAnalysis, and then both users stored a Gemini API key
WithKeys(h) ==
    LET payload == [gemini_api_key |-> "AIza-test-key"]
        s1 == route_set_gemini_key(h.st, h.tokens[1], payload, HistoryDocuments).st
    IN route_set_gemini_key(s1, h.tokens[2], payload, HistoryDocuments).st

InitOverlap ==
    /\ \E env \in {e \in Environments : e[1] => e[2]} :
          LET h == History(env, HistoryDocuments)
          IN /\ At(WithKeys(h))
             /\ tokens = {h.tokens[1], h.tokens[2]}
             /\ registered = {[email |-> HistoryUsers[i].email,
                               password |-> HistoryUsers[i].password,
                               id |-> h.ids[i]] : i \in 1..2}
    /\ clock = HistoryDocuments
    /\ resp = NoResponse
    /\ twin = TwinStarted
    /\ server = "server.py"
    /\ coroutines = <<>>

NextOverlap ==
    AnalysisFindOne \/ AnalysisPost \/ AnalysisUpdateOne \/ AnalysisInMemory
SpecOverlap == InitOverlap /\ [][NextOverlap]_vars

\* the analyses that wrote to the document with this id, and the last of them
WritersOf(document_id) ==
    {i \in Applied : coroutines[i].req.request.document_id = document_id}
LastWriter(document_id) ==
    CHOOSE i \in WritersOf(document_id) :
        \A j \in WritersOf(document_id) :
            coroutines[j].locals.turn <= coroutines[i].locals.turn

LifeUploads ==
    {u \in Uploads : /\ u[1].size = MaxUploadBytes
                     /\ u[2] = (IF u[1].data = PdfMagic THEN "pdf" ELSE "image")}

UploadMore ==
    \E credentials \in tokens, u \in LifeUploads :
        LET r == route_upload_document(Cur, credentials, u[1], u[2], clock)
        IN /\ Cardinality(AllDocuments(r.st)) <= MaxDocuments + 1
           /\ Commit(r.st)
           /\ resp' = Response("upload_document",
                               [credentials |-> credentials, file |-> u[1],
                                document_type |-> u[2]], r)
           /\ UNCHANGED <<clock, tokens, registered, twin, server, coroutines>>

\* a user asks for an analysis of a document of their own
AnalyzeOwn ==
    \E op \in AnalysisOps, credentials \in tokens :
      \E request \in OwnRequests(Cur, credentials) :
        \E reply \in RepliesTo(route_analyze(op, Cur, credentials, request,
                                             NoReply, clock).posted) :
          LET r == route_analyze(op, Cur, credentials, request, reply, clock)
          IN /\ Commit(r.st)
             /\ resp' = Response(op, [credentials |-> credentials, request |-> request,
                                      reply |-> reply, posted |-> r.posted], r)
             /\ UNCHANGED <<clock, tokens, registered, twin, server, coroutines>>

\* both users hold a key, and MaxDocuments documents were uploaded
InitLife ==
    /\ \E env \in {e \in Environments : e[1] => e[2]} :
          LET h == History(env, MaxDocuments)
          IN /\ At(WithKeys(h))
             /\ tokens = {h.tokens[1], h.tokens[2]}
             /\ registered = {[email |-> HistoryUsers[i].email,
                               password |-> HistoryUsers[i].password,
                               id |-> h.ids[i]] : i \in 1..2}
    /\ clock = MaxDocuments
    /\ resp = NoResponse
    /\ twin = TwinStarted
    /\ server = "server.py"
    /\ coroutines = <<>>

NextLife == UploadMore \/ AnalyzeOwn
SpecLife == InitLife /\ [][NextLife]_vars

\* the documents two states differ on
Changed(s, t) ==
    (AllDocuments(s) \ AllDocuments(t)) \cup (AllDocuments(t) \ AllDocuments(s))

\* C24: a write of analyze_hair or analyze_document is scoped by
\* (document_id, user_id): a request of user A changes no document but one
\* with the requested id and user_id A.  Every stored document is filed
\* under its user_id, and an upload stores its document with the user_id
\* of, and filed under, the uploader.
C24_WritesAreScoped ==
    /\ \A t \in Accepted, request \in AnalysisRequests(Cur), op \in AnalysisOps :
          \A reply \in ServedReplies :
              \A d \in Changed(Cur, route_analyze(op, Cur, t, request, reply, clock).st) :
                  d.id = request.document_id /\ d.user_id = t.sub
    /\ \A u \in DOMAIN documents_storage :
          \A i \in DOMAIN documents_storage[u] : documents_storage[u][i].user_id = u
    /\ \A t \in Accepted, u \in Uploads :
          LET r == route_upload_document(Cur, t, u[1], u[2], clock)
          IN /\ \A d \in Changed(Cur, r.st) : d.user_id = t.sub /\ d.id = r.body.id
             /\ \A k \in DOMAIN r.st.documents_storage :
                    k # t.sub => ListOf(documents_storage, k) = r.st.documents_storage[k]
    /\ (resp.op = "upload_document" /\ resp.status = 200) =>
          \E d \in AllDocuments(Cur) :
              d.id = resp.body.id /\ d.user_id = resp.req.credentials.sub

\* a user had a document analysed while another user's document, stored
\* too, was left without a result; and the other user, key stored, asks for
\* the analysis of the first user's document
C24_Witness ==
    /\ resp.op \in AnalysisOps
    /\ resp.status = 200
    /\ \E d, e \in AllDocuments(Cur) :
          /\ d.id = resp.req.request.document_id
          /\ d.user_id = resp.req.credentials.sub
          /\ d.analysis_result # None
          /\ e.user_id # d.user_id
          /\ e.analysis_result = None
          /\ HasKey(Cur, e.user_id)

\* the fields of a document but analysis_result
Frozen(d) == [k \in DOMAIN d \ {"analysis_result"} |-> d[k]]

\* every document of this step's first state is in its second state, with
\* the same fields but analysis_result
DocumentsAreKept ==
    \A d \in AllDocuments(Cur) :
        /\ {"id", "user_id", "document_type", "original_filename", "content",
            "created_at", "analysis_result"} \subseteq DOMAIN d
        /\ \E e \in AllDocuments(Cur)' : Frozen(e) = Frozen(d)

\* the content of a PDF is its extracted text, that of an image its base64
ContentIsOfType ==
    \A d \in AllDocuments(Cur) :
        /\ d.document_type = "pdf" => d.content = ExtractText(PdfMagic)
        /\ d.document_type = "image" => d.content = b64encode(JpegMagic)

\* C25: a stored document exists in every later state of the process with
\* its id, user_id, document_type, original_filename, content and
\* created_at as stored (the content of a 'pdf' its text, of an 'image' its
\* base64); analysis_result is the only field an operation modifies.
C25_DocumentsAreFrozen == []ContentIsOfType /\ [][DocumentsAreKept]_vars

\* after a further upload, an analysis wrote its result on a stored document
C25_Witness ==
    /\ resp.op \in AnalysisOps
    /\ resp.status = 200
    /\ Cardinality(AllDocuments(Cur)) > MaxDocuments
    /\ \E d \in AllDocuments(Cur) :
          /\ d.id = resp.req.request.document_id
          /\ d.analysis_result = resp.body.analysis_result
          /\ d.analysis_result # None

(***************************************************************************)
(* The read operations, in states that hold users, documents with and      *)
(* without results, and records, while the MongoDB server comes and goes.  *)
(***************************************************************************)
NextReads ==
    CreateRecord \/ AnalyzeOwn \/ MongoFlips
        \/ AuthMe \/ GetRecords \/ GetDocuments \/ GetDashboard \/ UploadFile
SpecReads == InitLife /\ [][NextReads]_vars

\* the states a read request can leave the process in: one for each way
\* the request can be sent in this state
AfterReads(credentials) ==
    {route_auth_me(Cur, credentials, clock).st,
     route_get_records(Cur, credentials, clock).st,
     route_get_documents(Cur, credentials, clock).st}
    \cup {route_get_dashboard(Cur, credentials, order, clock).st :
             order \in OrdersFor(Cur, credentials, clock)}
    \cup {route_upload_file(Cur, credentials, file, clock).st : file \in Files}

\* C26: get_dashboard, get_documents, get_records, auth_me and upload_file
\* leave the users, documents and records collections as they were,
\* whether the request succeeds or fails (token refused, user unknown,
\* server unreachable, file too large).
C26_ReadsChangeNothing ==
    \A credentials \in Presentable : AfterReads(credentials) = {Cur}

\* a read was answered 200 on a durable backend that holds the caller's
\* record and an analysed document
C26_Witness ==
    /\ resp.op = "get_records"
    /\ resp.status = 200
    /\ db # NoneStr
    /\ resp.body.records # <<>>
    /\ \E d \in AllDocuments(Cur) : d.analysis_result # None

\* C27: an analyze_hair or analyze_document request posts at most one
\* request to the Gemini API, whatever the API replies (a failure or a
\* timeout is not retried), and none when the request is refused (token
\* not accepted, no key, document not found, type mismatch); what is posted
\* is the content of a document of the caller, with the caller's key.
C27_AtMostOnePost ==
    \A t \in Presentable, request \in AnalysisRequests(Cur), op \in AnalysisOps :
        \A reply \in FailedReplies \cup ServedReplies :
            LET r == route_analyze(op, Cur, t, request, reply, clock)
            IN /\ Len(r.posted) <= 1
               /\ r.raised => r.posted = <<>>
               /\ r.posted # <<>> =>
                     /\ t \in Accepted
                     /\ HasKey(Cur, t.sub)
                     /\ \E d \in AllDocuments(Cur) :
                           /\ d.id = request.document_id
                           /\ d.user_id = t.sub
                           /\ d.document_type = RequiredType(op)
                           /\ r.posted[1].data = d.content

\* an analysis met a timeout of the Gemini API after posting once, in a
\* state where the other user's request for the same document is refused
C27_Witness ==
    /\ resp.op \in AnalysisOps
    /\ resp.req.reply.transport = "Timeout"
    /\ Len(resp.req.posted) = 1
    /\ \E t \in tokens :
          /\ t # resp.req.credentials
          /\ HasKey(Cur, t.sub)
          /\ \A reply \in FailedReplies :
                LET r == route_analyze(resp.op, Cur, t, resp.req.request, reply, clock)
                IN r.raised /\ r.posted = <<>>

\* C28: an analysis that does not succeed (the call of the Gemini API fails
\* or times out, or the API returns no candidate) leaves analysis_result
\* of the document as it was: a stored result is kept, and a document
\* never analysed stays without one.
C28_FailedAnalysisKeepsResult ==
    \A t \in Accepted, d \in AllDocuments(Cur) :
        \A reply \in FailedReplies \cup EmptyReplies :
            (HasKey(Cur, t.sub) /\ d.user_id = t.sub) =>
                LET request == [document_id |-> d.id, analysis_type |-> "capilar"]
                    op == IF d.document_type = "image" THEN "analyze_hair"
                          ELSE "analyze_document"
                    r == route_analyze(op, Cur, t, request, reply, clock)
                IN \A e \in AllDocuments(r.st) :
                      e.id = d.id => e.analysis_result = d.analysis_result

\* the summary get_documents gives the caller of document d, now
SummaryOf(credentials, d) ==
    LET g == route_get_documents(Cur, credentials, clock)
    IN {g.body.documents[i] : i \in {j \in DOMAIN g.body.documents :
                                        g.body.documents[j].id = d.id}}

\* a document without a result is listed with has_analysis false
C29_FalseBeforeAnalysis ==
    \A t \in Accepted, d \in AllDocuments(Cur) :
        (d.user_id = t.sub /\ d.analysis_result = None) =>
            \A m \in SummaryOf(t, d) : ~m.has_analysis

\* C29: has_analysis of a document is false from its upload until its first
\* successful analysis, and true once an analyze_hair or analyze_document
\* request on it has returned success, whatever the result returned
\* (the result parsed from the JSON object {} included).
C29_HasAnalysisAfterSuccess ==
    /\ C29_FalseBeforeAnalysis
    /\ (resp.op \in AnalysisOps /\ resp.status = 200) =>
          \A d \in AllDocuments(Cur) :
              d.id = resp.req.request.document_id =>
                  /\ SummaryOf(resp.req.credentials, d) # {}
                  /\ \A m \in SummaryOf(resp.req.credentials, d) : m.has_analysis

\* the ids of the records a get_records response lists
ListedIds(g) == {g.body.records[i].id : i \in DOMAIN g.body.records}

\* C30: in server.py and server_dev.py, create_record stores the record
\* with the subject of the caller's token as user_id, whatever user_id the
\* body carried; so every stored record carries the subject of a token
\* that was issued, and get_records returns to a caller the stored records
\* whose user_id is the subject of the caller's token, and no other.
C30_RecordsBelongToTheirCreator ==
    server # "server_basic.py" =>
        /\ \A t \in Presentable, record \in RecordBodies :
              LET r == serve_create_record(server, Cur, t, record, clock)
              IN \A rec \in StoredRecords(server, r.st) \ StoredRecords(server, Cur) :
                    rec.user_id = t.sub /\ t \in tokens
        /\ \A rec \in StoredRecords(server, Cur) : \E t \in tokens : rec.user_id = t.sub
        /\ \A t \in tokens :
              LET g == serve_get_records(server, Cur, t, clock)
              IN ~g.raised =>
                    ListedIds(g) = {rec.id : rec \in {x \in StoredRecords(server, Cur) :
                                                         x.user_id = t.sub}}

\* two users hold tokens; a record was stored for one of them by a request
\* whose body named the other, who is returned no record
C30_Witness ==
    /\ server # "server_basic.py"
    /\ resp.op = "create_record"
    /\ \E rec \in StoredRecords(server, Cur) :
          /\ rec.user_id = resp.req.credentials.sub
          /\ \E t \in tokens :
                /\ t.sub # rec.user_id
                \* server_dev.py: the subject is a username, never an id
                /\ server = "server.py" => t.sub = resp.req.record.user_id
                /\ ~serve_get_records(server, Cur, t, clock).raised
                /\ serve_get_records(server, Cur, t, clock).body.records = <<>>

====
